---- MODULE Spec2Model ----
(***************************************************************************)
(* The stock-data pipeline of src/Week4/app.js (class DataLoader):         *)
(*   loadData = parseCSV ; pivotData ; normalizeData ; prepareSamples ;    *)
(*              splitData                                                  *)
(* the per-stock accuracy of src/Week4/Week4 gru.js (class GRUModel), the  *)
(* digit loader of src/week3/data-loader.js (class MNISTDataLoader), the   *)
(* evaluation metrics of src/week3/app.js (class MNISTApp), and the click  *)
(* handlers of MNISTApp and of StockPredictionApp (src/Week4/app.js).      *)
(* JavaScript arrays are sequences read with 0-based helpers (At, slice);  *)
(* plain objects are functions on their key sets; JavaScript numbers are   *)
(* exact fractions [num, den] with NaN = 0/0 and +-Infinity = +-1/0.       *)
(***************************************************************************)
EXTENDS Integers, Sequences, FiniteSets, TLC

VARIABLES pc, rawData, symbols, dates, pivoted, normalized, minMax,
          sequenceLength, predictionDays, samples, targets, anchors,
          splitRatio, X_train, y_train, X_test, y_test,
          predictions, daysAhead, stockAccuracies,
          content, caller, loadResult, trainData, testData,
          metricPc, predArray, trueArray, confusionMatrix, perClassAccuracy,
          csv, parsePc, parsed, parseError,
          model, isTraining, appTrainData, appTestData, logged,
          loadPc, loadedTrain, fits, evalPc, testPc, modelPc,
          datasets, models, disposed,
          isDataLoaded, isModelTrained, trainDisabled, evaluateDisabled,
          loaded, uploadPc, net, runs, alerted, evaluated

\* the fields of DataLoader and the locals of loadData
stockVars == <<pc, rawData, symbols, dates, pivoted, normalized, minMax,
               sequenceLength, predictionDays, samples, targets, anchors,
               splitRatio, X_train, y_train, X_test, y_test>>
\* the arguments and the result of GRUModel.calculatePerStockAccuracy
evalVars == <<predictions, daysAhead, stockAccuracies>>
\* the fields of MNISTDataLoader and the latest loadCSVFile call
digitVars == <<content, caller, loadResult, trainData, testData>>
\* the arrays, the matrix and the accuracies of MNISTApp.onEvaluate
metricVars == <<metricPc, predArray, trueArray, confusionMatrix, perClassAccuracy>>

\* the text, the position and the outcome of a DataLoader.parseCSV call
csvVars == <<csv, parsePc, parsed, parseError>>
\* the variables of the handlers of the two applications
\* the fields of MNISTApp, the last entry of its log, the positions of its
\* handlers at their awaits, and the tensors made and disposed
digitAppVars == <<model, isTraining, appTrainData, appTestData, logged,
                  loadPc, loadedTrain, fits, evalPc, testPc, modelPc,
                  datasets, models, disposed>>
\* the fields of StockPredictionApp, its two buttons, the dataset of its
\* DataLoader, the network of its GRUModel, its handlers under way, its last
\* alert and its last evaluation
stockAppVars == <<isDataLoaded, isModelTrained, trainDisabled, evaluateDisabled,
                  loaded, uploadPc, net, runs, alerted, evaluated>>
appVars == <<csvVars, digitAppVars, stockAppVars>>

vars == <<stockVars, evalVars, digitVars, metricVars, appVars>>

(***************************************************************************)
(* Bounds of the model.                                                    *)
(***************************************************************************)
\* number of distinct dates a generated CSV file may hold
MaxDates == 4
\* number of rows of an arbitrarily ordered CSV file
MaxRows == 3
\* largest sequenceLength passed to prepareSamples
MaxSeqLen == 2
\* largest predictionDays passed to prepareSamples
MaxPredDays == 4

(***************************************************************************)
(* JavaScript values.                                                      *)
(***************************************************************************)
\* undefined and null, kept apart from every array, object and number
Undefined == [undefined |-> TRUE]
Null == [null |-> TRUE]

Num(n) == [num |-> n, den |-> 1]
NaN == [num |-> 0, den |-> 0]
Zero == Num(0)
IsNaN(x) == x.den = 0 /\ x.num = 0
IsFinite(x) == x.den > 0
Sign(n) == IF n > 0 THEN 1 ELSE IF n < 0 THEN 0 - 1 ELSE 0

\* a - b on numbers (Infinity - Infinity = NaN)
JsSub(a, b) ==
    IF IsNaN(a) \/ IsNaN(b) THEN NaN
    ELSE IF IsFinite(a) /\ IsFinite(b)
         THEN [num |-> a.num * b.den - b.num * a.den, den |-> a.den * b.den]
    ELSE IF ~IsFinite(a) /\ ~IsFinite(b)
         THEN (IF a.num = b.num THEN NaN ELSE a)
    ELSE IF ~IsFinite(a) THEN a
    ELSE [num |-> 0 - b.num, den |-> 0]

\* a / b on finite numbers and NaN (0/0 = NaN, x/0 = +-Infinity)
JsDiv(a, b) ==
    IF IsNaN(a) \/ IsNaN(b) \/ ~IsFinite(a) \/ ~IsFinite(b) THEN NaN
    ELSE IF b.num = 0
         THEN (IF a.num = 0 THEN NaN ELSE [num |-> Sign(a.num), den |-> 0])
    ELSE [num |-> a.num * b.den * Sign(b.num),
          den |-> a.den * b.num * Sign(b.num)]

\* a > b, a < b: false as soon as one side is NaN
JsGreater(a, b) ==
    /\ ~IsNaN(a) /\ ~IsNaN(b)
    /\ IF IsFinite(a) /\ IsFinite(b) THEN a.num * b.den > b.num * a.den
       ELSE IF IsFinite(a) THEN b.num < 0
       ELSE IF IsFinite(b) THEN a.num > 0
       ELSE a.num > b.num
JsLess(a, b) == JsGreater(b, a)

\* the same number (NaN equals nothing, itself included)
NumEq(a, b) == ~IsNaN(a) /\ ~IsNaN(b) /\ ~JsGreater(a, b) /\ ~JsGreater(b, a)

(***************************************************************************)
(* JavaScript arrays.                                                      *)
(***************************************************************************)
At(arr, i) == arr[i + 1]
Max2(a, b) == IF a > b THEN a ELSE b
Min2(a, b) == IF a < b THEN a ELSE b

\* Array.prototype.slice(begin, end): a negative index counts from the end
RelIndex(len, k) == IF k < 0 THEN Max2(len + k, 0) ELSE Min2(k, len)
slice(arr, begin, end) ==
    LET from == RelIndex(Len(arr), begin)
        to == RelIndex(Len(arr), end)
    IN  IF to <= from THEN <<>> ELSE SubSeq(arr, from + 1, to)
sliceFrom(arr, begin) == slice(arr, begin, Len(arr))

\* Array.prototype.indexOf
indexOf(arr, x) ==
    IF \E k \in 1..Len(arr) : arr[k] = x
    THEN (CHOOSE k \in 1..Len(arr) :
              arr[k] = x /\ \A m \in 1..(k - 1) : arr[m] # x) - 1
    ELSE 0 - 1

\* a find that keeps the last matching element
RECURSIVE FindRowLast(_, _, _)
FindRowLast(data, date, symbol) ==
    IF data = <<>> THEN Undefined
    ELSE IF data[Len(data)].Date = date /\ data[Len(data)].Symbol = symbol
         THEN data[Len(data)]
    ELSE FindRowLast(SubSeq(data, 1, Len(data) - 1), date, symbol)

\* Array.prototype.find: the first element satisfying the test, or undefined
RECURSIVE FindRow(_, _, _)
FindRow(data, date, symbol) ==
    IF data = <<>> THEN Undefined
    ELSE IF Head(data).Date = date /\ Head(data).Symbol = symbol THEN Head(data)
    ELSE FindRow(Tail(data), date, symbol)

\* [...new Set(arr)]: the distinct elements in first-seen order
RECURSIVE SetOrder(_)
SetOrder(arr) ==
    IF arr = <<>> THEN <<>>
    ELSE LET init == SetOrder(SubSeq(arr, 1, Len(arr) - 1))
             last == arr[Len(arr)]
         IN  IF \E k \in 1..Len(init) : init[k] = last THEN init
             ELSE Append(init, last)

Range(arr) == {arr[k] : k \in 1..Len(arr)}

RECURSIVE Concat(_)
Concat(arrs) == IF arrs = <<>> THEN <<>> ELSE Head(arrs) \o Concat(Tail(arrs))

(***************************************************************************)
(* Strings that are compared: a date is the sequence of its code units.    *)
(* DateStr(k) is the zero-padded two-digit day k + 8 ("09", "10", "11").   *)
(***************************************************************************)
DateStr(k) == <<(k + 8) \div 10, (k + 8) % 10>>

\* string comparison by code units, as the default Array.prototype.sort does
RECURSIVE StrLess(_, _)
StrLess(a, b) ==
    IF b = <<>> THEN FALSE
    ELSE IF a = <<>> THEN TRUE
    ELSE IF Head(a) # Head(b) THEN Head(a) < Head(b)
    ELSE StrLess(Tail(a), Tail(b))

RECURSIVE InsertSorted(_, _)
InsertSorted(sorted, x) ==
    IF sorted = <<>> THEN <<x>>
    ELSE IF StrLess(x, Head(sorted)) THEN <<x>> \o sorted
    ELSE <<Head(sorted)>> \o InsertSorted(Tail(sorted), x)

\* Array.prototype.sort() without a comparator, on strings
RECURSIVE sort(_)
sort(arr) ==
    IF arr = <<>> THEN <<>>
    ELSE InsertSorted(sort(SubSeq(arr, 1, Len(arr) - 1)), arr[Len(arr)])

\* parseFloat on the field texts of the model
parseFloat(text) ==
    CASE text = "1" -> Num(1)
      [] text = "2" -> Num(2)
      [] text = "2.0" -> Num(2)
      [] text = "3" -> Num(3)
      [] OTHER -> NaN

(***************************************************************************)
(* DataLoader.pivotData                                                    *)
(***************************************************************************)
\* the symbols of the rows without the Set
PivotSymbolsNoSet(data) == [k \in 1..Len(data) |-> data[k].Symbol]
\* [...new Set(data.map(row => row.Symbol))]
PivotSymbols(data) == SetOrder([k \in 1..Len(data) |-> data[k].Symbol])

\* the dates of the rows without the sort
PivotDatesNoSort(data) == SetOrder([k \in 1..Len(data) |-> data[k].Date])
\* [...new Set(data.map(row => row.Date))].sort()
PivotDates(data) == sort(SetOrder([k \in 1..Len(data) |-> data[k].Date]))

PivotEntry(row) == [Open |-> parseFloat(row.Open), Close |-> parseFloat(row.Close)]

PivotTable(data, syms, ds) ==
    [s \in Range(syms) |->
        [d \in {x \in Range(ds) : FindRow(data, x, s) # Undefined} |->
            PivotEntry(FindRow(data, d, s))]]

pivotData(data) ==
    [pivoted |-> PivotTable(data, PivotSymbols(data), PivotDates(data)),
     symbols |-> PivotSymbols(data),
     dates |-> PivotDates(data)]

(***************************************************************************)
(* DataLoader.normalizeData                                                *)
(***************************************************************************)
\* Math.min(...xs), Math.max(...xs): NaN as soon as one argument is NaN
MathMin(xs) ==
    IF xs = {} THEN [num |-> 1, den |-> 0]
    ELSE IF \E x \in xs : IsNaN(x) THEN NaN
    ELSE CHOOSE x \in xs : \A y \in xs : ~JsGreater(x, y)
MathMax(xs) ==
    IF xs = {} THEN [num |-> 0 - 1, den |-> 0]
    ELSE IF \E x \in xs : IsNaN(x) THEN NaN
    ELSE CHOOSE x \in xs : \A y \in xs : ~JsGreater(y, x)

\* Object.values(pivotedData[symbol]).map(v => v.Open), as the set of values
Opens(series) == {series[d].Open : d \in DOMAIN series}
Closes(series) == {series[d].Close : d \in DOMAIN series}

MinMaxOf(series) ==
    [Open |-> [min |-> MathMin(Opens(series)), max |-> MathMax(Opens(series))],
     Close |-> [min |-> MathMin(Closes(series)), max |-> MathMax(Closes(series))]]

\* (v - min) / (max - min)
Scale(v, mm) == JsDiv(JsSub(v, mm.min), JsSub(mm.max, mm.min))

NormalizeSeries(series) ==
    [d \in DOMAIN series |->
        [Open |-> Scale(series[d].Open, MinMaxOf(series).Open),
         Close |-> Scale(series[d].Close, MinMaxOf(series).Close)]]

normalizeData(pivotedData) ==
    [normalized |-> [s \in DOMAIN pivotedData |-> NormalizeSeries(pivotedData[s])],
     minMax |-> [s \in DOMAIN pivotedData |-> MinMaxOf(pivotedData[s])]]

(***************************************************************************)
(* DataLoader.prepareSamples                                               *)
(***************************************************************************)
\* normalizedData[symbol] && normalizedData[symbol][date]
HasRecord(normalizedData, symbol, date) ==
    symbol \in DOMAIN normalizedData /\ date \in DOMAIN normalizedData[symbol]

FeatureDates(ds, predDays) == slice(ds, 0, Len(ds) - predDays)

\* a time step that pushes a single 0 for a missing record
StepFeaturesOneZero(normalizedData, syms, date) ==
    Concat([k \in 1..Len(syms) |->
        IF HasRecord(normalizedData, syms[k], date)
        THEN <<normalizedData[syms[k]][date].Open, normalizedData[syms[k]][date].Close>>
        ELSE <<Zero>>])

\* one time step: [Open, Close] of every symbol, [0, 0] for a missing record
StepFeatures(normalizedData, syms, date) ==
    Concat([k \in 1..Len(syms) |->
        IF HasRecord(normalizedData, syms[k], date)
        THEN <<normalizedData[syms[k]][date].Open, normalizedData[syms[k]][date].Close>>
        ELSE <<Zero, Zero>>])

\* a window that ends at the anchor date: the steps j = i - seqLen + 1 .. i
SampleInputWithAnchor(normalizedData, syms, ds, seqLen, predDays, i) ==
    [n \in 1..seqLen |->
        StepFeatures(normalizedData, syms,
                     At(FeatureDates(ds, predDays), (i - seqLen) + n))]

\* the input of the sample of loop index i: the steps j = i - seqLen .. i - 1
SampleInput(normalizedData, syms, ds, seqLen, predDays, i) ==
    [n \in 1..seqLen |->
        StepFeatures(normalizedData, syms,
                     At(FeatureDates(ds, predDays), (i - seqLen) + (n - 1)))]

CurrentClose(normalizedData, symbol, currentDate) ==
    IF HasRecord(normalizedData, symbol, currentDate)
    THEN normalizedData[symbol][currentDate].Close
    ELSE Zero

\* the labels of all symbols for one offset
OffsetLabels(normalizedData, syms, ds, currentDate, offset) ==
    LET futureDateIndex == indexOf(ds, currentDate) + offset
    IN  IF futureDateIndex < Len(ds)
        THEN [k \in 1..Len(syms) |->
                IF HasRecord(normalizedData, syms[k], At(ds, futureDateIndex))
                THEN (IF JsGreater(normalizedData[syms[k]][At(ds, futureDateIndex)].Close,
                                   CurrentClose(normalizedData, syms[k], currentDate))
                      THEN 1 ELSE 0)
                ELSE 0]
        ELSE [k \in 1..Len(syms) |-> 0]

\* a target that lists the labels symbol by symbol, each with its offsets
SampleTargetBySymbol(normalizedData, syms, ds, predDays, currentDate) ==
    Concat([k \in 1..Len(syms) |->
        [offset \in 1..predDays |->
            OffsetLabels(normalizedData, syms, ds, currentDate, offset)[k]]])

\* the target of one sample: the labels of offset 1, then of offset 2, ...
SampleTarget(normalizedData, syms, ds, predDays, currentDate) ==
    Concat([offset \in 1..predDays |->
        OffsetLabels(normalizedData, syms, ds, currentDate, offset)])

\* the values i takes in: for (i = seqLen; i < featureDates.length; i++)
LoopIndices(ds, seqLen, predDays) ==
    [n \in 1..Max2(Len(FeatureDates(ds, predDays)) - seqLen, 0) |-> seqLen + (n - 1)]

prepareSamples(normalizedData, syms, ds, seqLen, predDays) ==
    LET idx == LoopIndices(ds, seqLen, predDays)
    IN  [samples |-> [n \in 1..Len(idx) |->
            SampleInput(normalizedData, syms, ds, seqLen, predDays, idx[n])],
         targets |-> [n \in 1..Len(idx) |->
            SampleTarget(normalizedData, syms, ds, predDays,
                         At(FeatureDates(ds, predDays), idx[n]))],
         anchors |-> idx]

(***************************************************************************)
(* DataLoader.splitData                                                    *)
(***************************************************************************)
\* the shape tf infers from a nested array: the lengths of the first elements
InferShape2(values) ==
    IF values = <<>> THEN <<0>> ELSE <<Len(values), Len(values[1])>>
InferShape3(values) ==
    IF values = <<>> THEN <<0>>
    ELSE IF values[1] = <<>> THEN <<Len(values), 0>>
    ELSE <<Len(values), Len(values[1]), Len(values[1][1])>>

\* tf.tensor2d, tf.tensor3d: the shape and the values in row-major order
tensor2d(values) == [shape |-> InferShape2(values), data |-> Concat(values)]
tensor3d(values) ==
    [shape |-> InferShape3(values),
     data |-> Concat([n \in 1..Len(values) |-> Concat(values[n])])]

\* Math.round in the place of Math.floor
SplitIndexRound(n, ratio) == (2 * n * ratio.num + ratio.den) \div (2 * ratio.den)

\* Math.floor(samples.length * splitRatio), the ratio an exact fraction
SplitIndex(n, ratio) == (n * ratio.num) \div ratio.den

splitData(smpls, tgts, ratio) ==
    [X_train |-> tensor3d(slice(smpls, 0, SplitIndex(Len(smpls), ratio))),
     y_train |-> tensor2d(slice(tgts, 0, SplitIndex(Len(smpls), ratio))),
     X_test |-> tensor3d(sliceFrom(smpls, SplitIndex(Len(smpls), ratio))),
     y_test |-> tensor2d(sliceFrom(tgts, SplitIndex(Len(smpls), ratio)))]

(***************************************************************************)
(* The CSV files of the model, as the records parseCSV hands to pivotData. *)
(***************************************************************************)
SymbolNames == <<"AAPL", "MSFT">>

\* the Open and Close texts of a row
FieldTexts ==
    {[Open |-> "1", Close |-> "2"], [Open |-> "2.0", Close |-> "1"],
     [Open |-> "x", Close |-> "3"]}
GridFieldTexts ==
    {[Open |-> "1", Close |-> "2"], [Open |-> "2.0", Close |-> "1"]}

Row(k, symbol, f) ==
    [Date |-> DateStr(k), Symbol |-> symbol, Open |-> f.Open, Close |-> f.Close]

\* files of at most MaxRows rows in any order, duplicates included
ShortDays == {1, 2, 3}
ShortRows == {Row(k, s, f) : k \in ShortDays, s \in Range(SymbolNames), f \in FieldTexts}
ShortFiles == UNION {[1..n -> ShortRows] : n \in 0..MaxRows}

Reverse(arr) == [k \in 1..Len(arr) |-> arr[Len(arr) + 1 - k]]

\* files of nDates dates, oldest first: the first symbol has a row on every
\* date, the second symbol on the dates where other[d] is not undefined
GridRows(nDates, first, other) ==
    Concat([d \in 1..nDates |->
        <<Row(d, SymbolNames[1], first[d])>> \o
        (IF other[d] = Undefined THEN <<>> ELSE <<Row(d, SymbolNames[2], other[d])>>)])
GridFilesOldestFirst ==
    UNION {{GridRows(n, first, other) :
               first \in [1..n -> GridFieldTexts],
               other \in [1..n -> GridFieldTexts \cup {Undefined}]} :
           n \in 0..MaxDates}
\* the same files, and each of them listed newest first
GridFiles == GridFilesOldestFirst \cup {Reverse(f) : f \in GridFilesOldestFirst}

\* the split ratios of the model: the default 0.8, and 0.5
SplitRatios == {[num |-> 4, den |-> 5], [num |-> 1, den |-> 2]}

(***************************************************************************)
(* DataLoader.loadData, one step per call it makes.                        *)
(***************************************************************************)
InitNull ==
    /\ pc = "parsed"
    /\ symbols = Null /\ dates = Null /\ pivoted = Null
    /\ normalized = Null /\ minMax = Null
    /\ sequenceLength = Null /\ predictionDays = Null
    /\ samples = Null /\ targets = Null /\ anchors = Null
    /\ splitRatio = Null
    /\ X_train = Null /\ y_train = Null /\ X_test = Null /\ y_test = Null

\* no evaluation, no digit file and no metric yet
EvalIdle == predictions = Null /\ daysAhead = Null /\ stockAccuracies = Null
DigitIdle ==
    /\ content = Null /\ caller = "none" /\ loadResult = Null
    /\ trainData = Null /\ testData = Null
MetricIdle ==
    /\ metricPc = "idle"
    /\ predArray = Null /\ trueArray = Null
    /\ confusionMatrix = Null /\ perClassAccuracy = Null
\* no parseCSV call is under way
CsvIdle == csv = <<>> /\ parsePc = "idle" /\ parsed = <<>> /\ parseError = "none"
\* no handler of the applications has run
\* MNISTApp as its constructor leaves it
DigitAppIdle ==
    /\ model = Null /\ isTraining = FALSE
    /\ appTrainData = Null /\ appTestData = Null
    /\ logged = ""
    /\ loadPc = "idle" /\ loadedTrain = Null
    /\ fits = <<>>
    /\ evalPc = "idle" /\ testPc = "idle" /\ modelPc = "idle"
    /\ datasets = {} /\ models = {} /\ disposed = {}
\* StockPredictionApp as its constructor leaves it, its buttons disabled
StockAppIdle ==
    /\ isDataLoaded = FALSE /\ isModelTrained = FALSE
    /\ trainDisabled = TRUE /\ evaluateDisabled = TRUE
    /\ loaded = 0 /\ uploadPc = "idle"
    /\ net = Null /\ runs = <<>>
    /\ alerted = "" /\ evaluated = Null
AppIdle == CsvIdle /\ DigitAppIdle /\ StockAppIdle

\* loadData on a file of the grid form
Init ==
    /\ rawData \in GridFiles
    /\ InitNull
    /\ EvalIdle /\ DigitIdle /\ MetricIdle /\ AppIdle

PivotData ==
    /\ pc = "parsed"
    /\ LET result == pivotData(rawData)
       IN  /\ pivoted' = result.pivoted
           /\ symbols' = result.symbols
           /\ dates' = result.dates
    /\ pc' = "pivoted"
    /\ UNCHANGED <<rawData, normalized, minMax, sequenceLength, predictionDays,
                   samples, targets, anchors, splitRatio,
                   X_train, y_train, X_test, y_test>>
    /\ UNCHANGED <<evalVars, digitVars, metricVars, appVars>>

NormalizeData ==
    /\ pc = "pivoted"
    /\ LET result == normalizeData(pivoted)
       IN  /\ normalized' = result.normalized
           /\ minMax' = result.minMax
    /\ pc' = "normalized"
    /\ UNCHANGED <<rawData, symbols, dates, pivoted, sequenceLength, predictionDays,
                   samples, targets, anchors, splitRatio,
                   X_train, y_train, X_test, y_test>>
    /\ UNCHANGED <<evalVars, digitVars, metricVars, appVars>>

PrepareSamples ==
    /\ pc = "normalized"
    /\ \E seqLen \in 1..MaxSeqLen, predDays \in 1..MaxPredDays :
          LET result == prepareSamples(normalized, symbols, dates, seqLen, predDays)
          IN  /\ sequenceLength' = seqLen
              /\ predictionDays' = predDays
              /\ samples' = result.samples
              /\ targets' = result.targets
              /\ anchors' = result.anchors
    /\ pc' = "sampled"
    /\ UNCHANGED <<rawData, symbols, dates, pivoted, normalized, minMax, splitRatio,
                   X_train, y_train, X_test, y_test>>
    /\ UNCHANGED <<evalVars, digitVars, metricVars, appVars>>

SplitData ==
    /\ pc = "sampled"
    /\ \E ratio \in SplitRatios :
          LET result == splitData(samples, targets, ratio)
          IN  /\ splitRatio' = ratio
              /\ X_train' = result.X_train
              /\ y_train' = result.y_train
              /\ X_test' = result.X_test
              /\ y_test' = result.y_test
    /\ pc' = "loaded"
    /\ UNCHANGED <<rawData, symbols, dates, pivoted, normalized, minMax,
                   sequenceLength, predictionDays, samples, targets, anchors>>
    /\ UNCHANGED <<evalVars, digitVars, metricVars, appVars>>

Next == PivotData \/ NormalizeData \/ PrepareSamples \/ SplitData

Spec == Init /\ [][Next]_vars

\* pivotData and normalizeData on any short list of records
InitPivot ==
    /\ rawData \in ShortFiles
    /\ InitNull
    /\ EvalIdle /\ DigitIdle /\ MetricIdle /\ AppIdle

NextPivot == PivotData \/ NormalizeData

SpecPivot == InitPivot /\ [][NextPivot]_vars

(***************************************************************************)
(* Reading a tensor back.                                                  *)
(***************************************************************************)
\* tensor.arraySync() of a rank-2 tensor: the rows as nested arrays
arraySync(t) ==
    IF Len(t.shape) < 2 THEN <<>>
    ELSE [n \in 1..t.shape[1] |->
            SubSeq(t.data, (n - 1) * t.shape[2] + 1, n * t.shape[2])]

\* the samples of a rank-3 tensor, each a list of steps
Samples3(t) ==
    IF Len(t.shape) < 3 THEN <<>>
    ELSE [n \in 1..t.shape[1] |->
            [j \in 1..t.shape[2] |->
                SubSeq(t.data, ((n - 1) * t.shape[2] + (j - 1)) * t.shape[3] + 1,
                               ((n - 1) * t.shape[2] + j) * t.shape[3])]]

\* X_train.shape[0], X_test.shape[0]
trainSize == X_train.shape[1]
testSize == X_test.shape[1]

(***************************************************************************)
(* Properties of prepareSamples.                                           *)
(***************************************************************************)
Sampled == pc \in {"sampled", "loaded"}

\* the date of loop index i, and the date h positions after it
AnchorDate(n) == At(dates, anchors[n])
HasAt(symbol, i) == i < Len(dates) /\ HasRecord(normalized, symbol, At(dates, i))

\* C1: prepareSamples returns exactly max(0, D - T - H) samples and as many
\* targets, one per anchor index i = T, T + 1, ..., D - H - 1 in this order.
C1_WindowCount ==
    Sampled =>
        LET count == Max2(0, (Len(dates) - sequenceLength) - predictionDays)
        IN  /\ Len(samples) = count
            /\ Len(targets) = count
            /\ anchors = [n \in 1..count |-> sequenceLength + (n - 1)]

\* C2: the label of horizon h and entity k of the sample anchored at dates[i]
\* is 1 exactly when the entity has a record at dates[i] and at dates[i + h]
\* and its normalized Close at dates[i + h] is strictly greater; it is 0 when
\* either record is missing.
C2_LabelRule ==
    Sampled =>
        \A n \in 1..Len(samples), h \in 1..predictionDays, k \in 1..Len(symbols) :
            LET i == anchors[n]
                label == targets[n][(h - 1) * Len(symbols) + k]
            IN  (i + h < Len(dates)) =>
                    label = IF /\ HasAt(symbols[k], i)
                               /\ HasAt(symbols[k], i + h)
                               /\ JsGreater(normalized[symbols[k]][At(dates, i + h)].Close,
                                            normalized[symbols[k]][At(dates, i)].Close)
                            THEN 1 ELSE 0

\* C3: the input of the sample of anchor index i is the T steps of
\* dates[i - T], ..., dates[i - 1] in this order, each step the normalized
\* [Open, Close] of every entity in the order of symbols, [0, 0] for an
\* entity without a record at that date.
C3_SampleInput ==
    Sampled =>
        \A n \in 1..Len(samples) :
            /\ Len(samples[n]) = sequenceLength
            /\ anchors[n] >= sequenceLength
            /\ \A j \in 1..sequenceLength, k \in 1..Len(symbols) :
                  LET date == At(dates, (anchors[n] - sequenceLength) + (j - 1))
                      step == samples[n][j]
                  IN  IF HasRecord(normalized, symbols[k], date)
                      THEN /\ step[2 * k - 1] = normalized[symbols[k]][date].Open
                           /\ step[2 * k] = normalized[symbols[k]][date].Close
                      ELSE /\ step[2 * k - 1] = Zero
                           /\ step[2 * k] = Zero

\* a sample whose window holds a date where one entity has no record and
\* another date where the same entity has one
C3_Witness ==
    /\ Sampled
    /\ sequenceLength = 2
    /\ \E n \in 1..Len(samples), k \in 1..Len(symbols) :
          /\ ~HasAt(symbols[k], anchors[n] - 2)
          /\ HasAt(symbols[k], anchors[n] - 1)
          /\ samples[n][2][2 * k] # Zero

\* C4: every sample has T steps, every step has S * 2 values and every
\* target has H * S labels, whichever records are missing.
C4_Shapes ==
    Sampled =>
        \A n \in 1..Len(samples) :
            /\ Len(samples[n]) = sequenceLength
            /\ \A j \in 1..Len(samples[n]) : Len(samples[n][j]) = Len(symbols) * 2
            /\ Len(targets[n]) = predictionDays * Len(symbols)

\* the example of the specification scaled to the model: two entities, one
\* sample, a missing record inside the window
C4_Witness ==
    /\ Sampled
    /\ Len(symbols) = 2
    /\ Len(samples) = 1
    /\ Len(targets[1]) = predictionDays * 2
    /\ \E j \in 0..(sequenceLength - 1) : ~HasAt(symbols[2], j)

(***************************************************************************)
(* Properties of splitData and loadData.                                   *)
(***************************************************************************)
\* floor(n * ratio): the integer k with k <= n * ratio < k + 1
IsFloorOf(k, n, ratio) ==
    k * ratio.den <= n * ratio.num /\ n * ratio.num < (k + 1) * ratio.den

\* C5: splitData returns the first floor(N * r) pairs as train and the rest
\* as test: train followed by test is the original sequence, for X and for y.
C5_SplitContiguous ==
    pc = "loaded" =>
        /\ IsFloorOf(Len(Samples3(X_train)), Len(samples), splitRatio)
        /\ Len(arraySync(y_train)) = Len(Samples3(X_train))
        /\ Samples3(X_train) \o Samples3(X_test) = samples
        /\ arraySync(y_train) \o arraySync(y_test) = targets

C5_Witness ==
    /\ pc = "loaded"
    /\ Len(samples) = 2
    /\ trainSize = 1 /\ testSize = 1
    /\ samples[1] # samples[2]
    /\ targets[1] # targets[2]

\* the day a date text names
DayOf(date) == date[1] * 10 + date[2]

\* C6: after loadData the anchor date of every test sample is strictly
\* later than the anchor date of every train sample.
C6_TestAfterTrain ==
    (pc = "loaded" /\ Len(samples) > 0) =>
        /\ trainSize + testSize = Len(samples)
        /\ \A a \in 1..trainSize, b \in 1..testSize :
              /\ Samples3(X_train)[a] = samples[a]
              /\ Samples3(X_test)[b] = samples[trainSize + b]
              /\ DayOf(AnchorDate(a)) < DayOf(AnchorDate(trainSize + b))

\* a file listed newest first, loaded into one train and one test sample
C6_Witness ==
    /\ pc = "loaded"
    /\ trainSize = 1 /\ testSize = 1
    /\ Len(rawData) > 1
    /\ DayOf(rawData[1].Date) > DayOf(rawData[Len(rawData)].Date)

(***************************************************************************)
(* Properties of pivotData.                                                *)
(***************************************************************************)
Pivoted == pc \in {"pivoted", "normalized", "sampled", "loaded"}

\* the rows of rawData with this symbol and date, by position
RowsOf(symbol, date) ==
    {k \in 1..Len(rawData) : rawData[k].Symbol = symbol /\ rawData[k].Date = date}
FirstRowOf(symbol) ==
    CHOOSE k \in 1..Len(rawData) :
        rawData[k].Symbol = symbol /\ \A m \in 1..(k - 1) : rawData[m].Symbol # symbol
Minimum(S) == CHOOSE k \in S : \A m \in S : k <= m

\* C7: pivotData returns dates strictly increasing without duplicates,
\* symbols that are the distinct entities in first-seen order, and a mapping
\* whose keys are these symbols and, per symbol, some of these dates.
C7_PivotOrderings ==
    Pivoted =>
        /\ \A a, b \in 1..Len(dates) : a < b => StrLess(dates[a], dates[b])
        /\ Range(dates) = {rawData[k].Date : k \in 1..Len(rawData)}
        /\ Range(symbols) = {rawData[k].Symbol : k \in 1..Len(rawData)}
        /\ \A a, b \in 1..Len(symbols) :
              a < b => FirstRowOf(symbols[a]) < FirstRowOf(symbols[b])
        /\ DOMAIN pivoted = Range(symbols)
        /\ \A s \in DOMAIN pivoted : DOMAIN pivoted[s] \subseteq Range(dates)

\* rows out of date order, a symbol seen twice, two symbols
C7_Witness ==
    /\ Pivoted
    /\ Len(rawData) = 3
    /\ symbols = <<"MSFT", "AAPL">>
    /\ rawData[3].Symbol = "MSFT"
    /\ Len(dates) = 2
    /\ rawData[1].Date = dates[2]

\* every date of a row or of an entry of the mapping
DatesSeen ==
    {rawData[k].Date : k \in 1..Len(rawData)}
        \cup UNION {DOMAIN pivoted[s] : s \in DOMAIN pivoted}

\* C8: entity s has an entry for date d exactly when some row has Symbol s
\* and Date d, and the entry is the parsed Open and Close of the first such
\* row.
C8_PivotEntries ==
    Pivoted =>
        /\ DOMAIN pivoted \subseteq Range(SymbolNames)
        /\ \A s \in Range(SymbolNames), d \in DatesSeen :
              IF RowsOf(s, d) = {}
              THEN ~HasRecord(pivoted, s, d)
              ELSE /\ HasRecord(pivoted, s, d)
                   /\ pivoted[s][d] =
                        [Open |-> parseFloat(rawData[Minimum(RowsOf(s, d))].Open),
                         Close |-> parseFloat(rawData[Minimum(RowsOf(s, d))].Close)]

\* two rows of one symbol and date that differ, and a pair without a row
C8_Witness ==
    /\ Pivoted
    /\ \E s \in Range(symbols), d \in Range(dates) :
          /\ Cardinality(RowsOf(s, d)) = 2
          /\ \E k, m \in RowsOf(s, d) :
                k < m /\ parseFloat(rawData[k].Close) # parseFloat(rawData[m].Close)
    /\ \E s \in Range(symbols), d \in Range(dates) : ~HasRecord(pivoted, s, d)

(***************************************************************************)
(* Properties of normalizeData.                                            *)
(***************************************************************************)
Normalized == pc \in {"normalized", "sampled", "loaded"}

FieldNames == {"Open", "Close"}

\* a number between 0 and 1
InUnitInterval(x) == ~IsNaN(x) /\ ~JsLess(x, Zero) /\ ~JsGreater(x, Num(1))

\* the present values of this entity and field are all numbers
AllNumbers(s, f) == \A d \in DOMAIN pivoted[s] : ~IsNaN(pivoted[s][d][f])

\* C9: every present value v becomes (v - min) / (max - min), which lies in
\* [0, 1]; the minimum becomes 0 and the maximum becomes 1.
C9_NormalizedRange ==
    Normalized =>
        \A s \in DOMAIN pivoted, f \in FieldNames :
            AllNumbers(s, f) =>
                \A d \in DOMAIN pivoted[s] :
                    /\ HasRecord(normalized, s, d)
                    /\ InUnitInterval(normalized[s][d][f])
                    /\ NumEq(pivoted[s][d][f], minMax[s][f].min)
                           => NumEq(normalized[s][d][f], Zero)
                    /\ NumEq(pivoted[s][d][f], minMax[s][f].max)
                           => NumEq(normalized[s][d][f], Num(1))

\* C10: when max = min for an (entity, field), every normalized value of the
\* field is 0, never NaN.
C10_DegenerateZero ==
    Normalized =>
        \A s \in DOMAIN pivoted, f \in FieldNames :
            NumEq(minMax[s][f].max, minMax[s][f].min) =>
                \A d \in DOMAIN normalized[s] : NumEq(normalized[s][d][f], Zero)

(***************************************************************************)
(* loadData on the files of one symbol, whose fields may fail to parse,    *)
(* and splitData called with any ratio.                                    *)
(***************************************************************************)
\* files of one symbol with a row on every date, oldest first, any field text
OneSymbolFiles ==
    UNION {{[d \in 1..n |-> Row(d, SymbolNames[1], f[d])] : f \in [1..n -> FieldTexts]} :
           n \in 0..MaxDates}

\* ratios a caller may pass to splitData: -0.5, 0, 0.5, 1 and 1.5
AnyRatios ==
    {[num |-> 0 - 1, den |-> 2], [num |-> 0, den |-> 1], [num |-> 1, den |-> 2],
     [num |-> 1, den |-> 1], [num |-> 3, den |-> 2]}

InitOneSymbol ==
    /\ rawData \in OneSymbolFiles
    /\ InitNull
    /\ EvalIdle /\ DigitIdle /\ MetricIdle /\ AppIdle

SplitDataAnyRatio ==
    /\ pc = "sampled"
    /\ \E ratio \in AnyRatios :
          LET result == splitData(samples, targets, ratio)
          IN  /\ splitRatio' = ratio
              /\ X_train' = result.X_train
              /\ y_train' = result.y_train
              /\ X_test' = result.X_test
              /\ y_test' = result.y_test
    /\ pc' = "loaded"
    /\ UNCHANGED <<rawData, symbols, dates, pivoted, normalized, minMax,
                   sequenceLength, predictionDays, samples, targets, anchors>>
    /\ UNCHANGED <<evalVars, digitVars, metricVars, appVars>>

NextOneSymbol == PivotData \/ NormalizeData \/ PrepareSamples \/ SplitDataAnyRatio

SpecOneSymbol == InitOneSymbol /\ [][NextOneSymbol]_vars

(***************************************************************************)
(* Properties of fields that do not parse.                                 *)
(***************************************************************************)
\* the values of one field of one entity that parsed as numbers
NumbersOf(s, f) == {pivoted[s][d][f] : d \in DOMAIN pivoted[s]} \ {NaN}

\* the texts of this field that parsed give two different numbers at least
Spread(s, f) == JsGreater(MathMax(NumbersOf(s, f)), MathMin(NumbersOf(s, f)))

\* the place of field f of entity number k in a time step
StepIndex(k, f) == IF f = "Open" THEN 2 * k - 1 ELSE 2 * k

\* C11: a value that did not parse is treated as missing: the min and max of
\* its (entity, field) are those of the values that parsed, the values that
\* parsed still normalize into [0, 1], and no sample holds a NaN.  The
\* (entity, field) pairs are those whose parsed values are not all equal.
C11_NaNAsMissing ==
    /\ Normalized =>
          \A s \in DOMAIN pivoted, f \in FieldNames :
              Spread(s, f) =>
                  /\ minMax[s][f].min = MathMin(NumbersOf(s, f))
                  /\ minMax[s][f].max = MathMax(NumbersOf(s, f))
                  /\ \A d \in DOMAIN pivoted[s] :
                        ~IsNaN(pivoted[s][d][f]) => InUnitInterval(normalized[s][d][f])
    /\ Sampled =>
          \A n \in 1..Len(samples), j \in 1..sequenceLength,
             k \in 1..Len(symbols), f \in FieldNames :
              Spread(symbols[k], f) => ~IsNaN(samples[n][j][StepIndex(k, f)])

(***************************************************************************)
(* MNISTDataLoader.loadCSVFile.  The text of a file is the list of lines   *)
(* content.split('\n') gives, each line the list of field texts            *)
(* line.split(',') gives: a text without a comma is a line of one field,   *)
(* and the empty text is one line holding one empty field.                 *)
(***************************************************************************)
\* the values a line must hold: the label and the pixels
ValuesPerLine == 785
\* the divisor of the pixel values
PixelScale == 255
\* the side of an image
ImageSide == 28
\* the depth of the one-hot labels
NumClasses == 10

\* String.prototype.trim on the field texts of the model
trim(text) == IF text \in {"", " "} THEN "" ELSE text

\* line.trim() === '': the line holds no comma and nothing but white space
IsBlankLine(line) == Len(line) = 1 /\ trim(line[1]) = ""

\* Number(text): white space is 0, a text that is no number is NaN
Number(text) ==
    IF text \in {"", " ", "0"} THEN Num(0)
    ELSE IF text = "3" THEN Num(3)
    ELSE IF text = "7" THEN Num(7)
    ELSE IF text = "255" THEN Num(255)
    ELSE NaN

\* a test that also lets longer lines pass
HasAllValuesOrMore(line) == Len(line) >= ValuesPerLine

\* !(values.length !== 785), values = line.split(',').map(Number)
HasAllValues(line) == Len(line) = ValuesPerLine

\* tensor.div(c) and tensor.reshape(shape)
tensorDiv(t, c) ==
    [shape |-> t.shape, data |-> [k \in 1..Len(t.data) |-> JsDiv(t.data[k], Num(c))]]
reshape(t, shape) == [shape |-> shape, data |-> t.data]

\* tf.oneHot(labels, depth): a label outside 0..depth-1 gives a row of zeros
oneHot(labels, depth) ==
    [shape |-> <<Len(labels), depth>>,
     data |-> Concat([n \in 1..Len(labels) |->
                 [c \in 1..depth |-> IF NumEq(labels[n], Num(c - 1)) THEN 1 ELSE 0]])]

\* the promise of loadCSVFile once reader.onload has run
loadCSVFile(text) ==
    LET lines == SelectSeq(text, LAMBDA line : ~IsBlankLine(line))
        rows == SelectSeq(lines, HasAllValues)
        labels == [n \in 1..Len(rows) |-> Number(rows[n][1])]
        pixels == [n \in 1..Len(rows) |->
                      sliceFrom([k \in 1..Len(rows[n]) |-> Number(rows[n][k])], 1)]
    IN  IF Len(labels) = 0
        THEN [state |-> "rejected", reason |-> "No valid data found in file"]
        ELSE [state |-> "fulfilled",
              value |-> [xs |-> reshape(tensorDiv(tensor2d(pixels), PixelScale),
                                        <<Len(labels), ImageSide, ImageSide, 1>>),
                         ys |-> oneHot(labels, NumClasses),
                         count |-> Len(labels)]]

(***************************************************************************)
(* The digit files of the model.                                           *)
(***************************************************************************)
\* number of lines of a digit file
MaxLines == 3

\* a line of n fields: a label text, then n - 1 times the same pixel text
RowLine(label, pixel, n) == [k \in 1..n |-> IF k = 1 THEN label ELSE pixel]

\* an empty line, a line of white space, two lines of 785 fields, a line of
\* 785 fields whose label is no class, a line of 784 fields and a line of
\* 786 fields
DigitLines ==
    {<<"">>, <<" ">>,
     RowLine("3", "0", ValuesPerLine), RowLine("7", "255", ValuesPerLine),
     RowLine("255", "0", ValuesPerLine),
     RowLine("3", "255", ValuesPerLine - 1), RowLine("7", "0", ValuesPerLine + 1)}

DigitFiles == UNION {[1..n -> DigitLines] : n \in 1..MaxLines}

\* no stock file is loaded
StockIdle == rawData = Null /\ InitNull

\* one call of loadCSVFile on any file
InitCsv ==
    /\ content \in DigitFiles
    /\ caller = "none" /\ loadResult = Null
    /\ trainData = Null /\ testData = Null
    /\ StockIdle /\ EvalIdle /\ MetricIdle /\ AppIdle

LoadCSVFile ==
    /\ caller = "none"
    /\ caller' = "loadCSVFile"
    /\ loadResult' = loadCSVFile(content)
    /\ UNCHANGED <<content, trainData, testData>>
    /\ UNCHANGED <<stockVars, evalVars, metricVars, appVars>>

NextCsv == LoadCSVFile

SpecCsv == InitCsv /\ [][NextCsv]_vars

(***************************************************************************)
(* Properties of loadCSVFile.                                              *)
(***************************************************************************)
\* the places of the lines that are not blank and hold exactly 785 fields
WellFormed ==
    {i \in 1..Len(content) :
        /\ Len(content[i]) = ValuesPerLine
        /\ ~(Len(content[i]) = 1 /\ content[i][1] \in {"", " "})}

\* the n-th smallest element of a set of integers
NthOf(S, n) == CHOOSE i \in S : Cardinality({j \in S : j < i}) = n - 1

\* C12: with N lines of exactly 785 fields, whatever other lines stand
\* between them, the result has count N and its n-th label and pixel row are
\* those of the n-th such line.
C12_KeepsWellFormed ==
    (caller = "loadCSVFile" /\ Cardinality(WellFormed) > 0) =>
        /\ loadResult.state = "fulfilled"
        /\ loadResult.value.count = Cardinality(WellFormed)
        /\ loadResult.value.xs.shape[1] = Cardinality(WellFormed)
        /\ loadResult.value.ys.shape[1] = Cardinality(WellFormed)
        /\ Len(loadResult.value.xs.data) = Cardinality(WellFormed) * (ValuesPerLine - 1)
        /\ Len(loadResult.value.ys.data) = Cardinality(WellFormed) * NumClasses
        /\ \A n \in 1..Cardinality(WellFormed) :
              LET line == content[NthOf(WellFormed, n)]
              IN  /\ \A c \in 1..NumClasses :
                        loadResult.value.ys.data[(n - 1) * NumClasses + c]
                            = IF NumEq(Number(line[1]), Num(c - 1)) THEN 1 ELSE 0
                  /\ \A k \in 1..(ValuesPerLine - 1) :
                        loadResult.value.xs.data[(n - 1) * (ValuesPerLine - 1) + k]
                            = JsDiv(Number(line[k + 1]), Num(PixelScale))

\* two different lines of 785 fields with a longer line between them
C12_Witness ==
    /\ caller = "loadCSVFile"
    /\ Len(content) = 3
    /\ WellFormed = {1, 3}
    /\ Len(content[2]) = ValuesPerLine + 1
    /\ content[1][1] # content[3][1]
    /\ loadResult.value.count = 2

(***************************************************************************)
(* MNISTApp.createConfusionMatrix and MNISTApp.calculatePerClassAccuracy   *)
(***************************************************************************)
\* the number of rows and of columns of the confusion matrix
MatrixSize == 10

\* Array(10).fill().map(() => Array(10).fill(0))
ZeroMatrix == [t \in 1..MatrixSize |-> [p \in 1..MatrixSize |-> 0]]

\* an increment of the entry of row pred and column trueVal
IncrementTransposed(matrix, trueVal, pred) ==
    [matrix EXCEPT ![pred + 1][trueVal + 1] = @ + 1]

\* matrix[trueVal][pred]++
Increment(matrix, trueVal, pred) ==
    [matrix EXCEPT ![trueVal + 1][pred + 1] = @ + 1]

\* for (let i = 0; i < predArray.length; i++), from index i on
RECURSIVE FillMatrix(_, _, _, _)
FillMatrix(matrix, predArr, trueArr, i) ==
    IF i < Len(predArr)
    THEN FillMatrix(Increment(matrix, At(trueArr, i), At(predArr, i)),
                    predArr, trueArr, i + 1)
    ELSE matrix

createConfusionMatrix(predArr, trueArr) == FillMatrix(ZeroMatrix, predArr, trueArr, 0)

\* row.reduce((sum, val) => sum + val, 0)
RECURSIVE Sum(_)
Sum(row) == IF row = <<>> THEN 0 ELSE Sum(SubSeq(row, 1, Len(row) - 1)) + row[Len(row)]

\* a ratio that is computed whatever the total is
ClassAccuracyNoGuard(row, i) == JsDiv(Num(At(row, i)), Num(Sum(row)))

\* total > 0 ? correct / total : 0
ClassAccuracy(row, i) ==
    IF Sum(row) > 0 THEN JsDiv(Num(At(row, i)), Num(Sum(row))) ELSE Zero

calculatePerClassAccuracy(matrix) ==
    [c \in 1..Len(matrix) |-> ClassAccuracy(matrix[c], c - 1)]

\* number of examples that are evaluated
MaxExamples == 3

\* the classes the predicted and the true labels of the model take
ClassSample == {0, 3, MatrixSize - 1}

LabelArrays == UNION {[1..n -> ClassSample] : n \in 0..MaxExamples}

\* onEvaluate once the predicted and the true labels are known
InitMetrics ==
    /\ metricPc = "predicted"
    /\ predArray \in LabelArrays
    /\ trueArray \in {arr \in LabelArrays : Len(arr) = Len(predArray)}
    /\ confusionMatrix = Null /\ perClassAccuracy = Null
    /\ StockIdle /\ EvalIdle /\ DigitIdle /\ AppIdle

\* trueArray[i] is undefined for some index of the loop: matrix[undefined] is
\* undefined and matrix[trueVal][pred]++ throws a TypeError
RowMissing(predArr, trueArr) == Len(trueArr) < Len(predArr)

CreateConfusionMatrix ==
    /\ metricPc = "predicted"
    /\ IF RowMissing(predArray, trueArray)
       THEN metricPc' = "failed" /\ UNCHANGED confusionMatrix
       ELSE /\ confusionMatrix' = createConfusionMatrix(predArray, trueArray)
            /\ metricPc' = "counted"
    /\ UNCHANGED <<predArray, trueArray, perClassAccuracy>>
    /\ UNCHANGED <<stockVars, evalVars, digitVars, appVars>>

CalculatePerClassAccuracy ==
    /\ metricPc = "counted"
    /\ perClassAccuracy' = calculatePerClassAccuracy(confusionMatrix)
    /\ metricPc' = "scored"
    /\ UNCHANGED <<predArray, trueArray, confusionMatrix>>
    /\ UNCHANGED <<stockVars, evalVars, digitVars, appVars>>

NextMetrics == CreateConfusionMatrix \/ CalculatePerClassAccuracy

SpecMetrics == InitMetrics /\ [][NextMetrics]_vars

(***************************************************************************)
(* Properties of the confusion matrix and of the per-class accuracy.       *)
(***************************************************************************)
Counted == metricPc \in {"counted", "scored"}

Classes == 0..(MatrixSize - 1)

\* the examples of true class t, and those also predicted as p
ExamplesOf(t) == {i \in 1..Len(trueArray) : trueArray[i] = t}
ExamplesAs(t, p) == {i \in ExamplesOf(t) : predArray[i] = p}

\* C13: the matrix is 10 x 10, entry [t][p] is the number of examples of true
\* class t predicted as p, row t sums to the number of examples of true class
\* t and all entries sum to N.
C13_ConfusionCounts ==
    Counted =>
        /\ Len(confusionMatrix) = MatrixSize
        /\ \A t \in Classes :
              /\ Len(At(confusionMatrix, t)) = MatrixSize
              /\ \A p \in Classes :
                    /\ At(At(confusionMatrix, t), p) \in Nat
                    /\ At(At(confusionMatrix, t), p) = Cardinality(ExamplesAs(t, p))
              /\ Sum(At(confusionMatrix, t)) = Cardinality(ExamplesOf(t))
        /\ Sum([c \in 1..MatrixSize |-> Sum(confusionMatrix[c])]) = Len(predArray)

\* two examples of one class with the same wrong prediction, a third one
\* predicted right
C13_Witness ==
    /\ Counted
    /\ Len(predArray) = 3
    /\ \E t, p \in Classes :
          /\ t # p
          /\ At(At(confusionMatrix, t), p) = 2
          /\ At(At(confusionMatrix, p), t) = 0
    /\ \E t \in Classes : At(At(confusionMatrix, t), t) = 1

\* C14: the accuracy of class c is matrix[c][c] / (sum of row c), a number of
\* [0, 1], and it is 0 when the row sum is 0.
C14_PerClassAccuracy ==
    (metricPc = "scored") =>
        /\ Len(perClassAccuracy) = MatrixSize
        /\ \A c \in Classes :
              /\ InUnitInterval(At(perClassAccuracy, c))
              /\ IF Sum(At(confusionMatrix, c)) = 0
                 THEN NumEq(At(perClassAccuracy, c), Zero)
                 ELSE NumEq(At(perClassAccuracy, c),
                            [num |-> At(At(confusionMatrix, c), c),
                             den |-> Sum(At(confusionMatrix, c))])

\* a class without example next to a class of which one example of two is
\* predicted right
C14_Witness ==
    /\ metricPc = "scored"
    /\ \E c \in Classes : Sum(At(confusionMatrix, c)) = 0
    /\ \E c \in Classes :
          /\ Sum(At(confusionMatrix, c)) = 2
          /\ NumEq(At(perClassAccuracy, c), [num |-> 1, den |-> 2])

(***************************************************************************)
(* GRUModel.calculatePerStockAccuracy                                      *)
(***************************************************************************)
\* the default of the parameter daysAhead
DefaultDaysAhead == 3

\* the threshold 0.5
Half == [num |-> 1, den |-> 2]

\* a threshold that also lets 0.5 pass
BinarizeAtLeast(v) == IF JsGreater(v, Half) \/ NumEq(v, Half) THEN 1 ELSE 0

\* predData[sample][outputIndex] > 0.5 ? 1 : 0
Binarize(v) == IF JsGreater(v, Half) THEN 1 ELSE 0

\* trueVal === predVal for every sample and, within a sample, every day
Hits(trueData, predData, nSymbols, symbolIndex, days) ==
    Concat([sample \in 1..Len(trueData) |->
        [day \in 1..days |->
            At(trueData[sample], (day - 1) * nSymbols + symbolIndex)
                = Binarize(At(predData[sample], (day - 1) * nSymbols + symbolIndex))]])

\* the number of times correct++ runs
RECURSIVE CountTrue(_)
CountTrue(flags) ==
    IF flags = <<>> THEN 0
    ELSE CountTrue(Tail(flags)) + (IF Head(flags) THEN 1 ELSE 0)

\* correct / total of one symbol, total the number of comparisons
StockAccuracy(trueData, predData, nSymbols, symbolIndex, days) ==
    JsDiv(Num(CountTrue(Hits(trueData, predData, nSymbols, symbolIndex, days))),
          Num(Len(Hits(trueData, predData, nSymbols, symbolIndex, days))))

\* the object stockAccuracies; the symbols are distinct
calculatePerStockAccuracy(yTrue, yPred, syms, days) ==
    [s \in Range(syms) |->
        StockAccuracy(arraySync(yTrue), arraySync(yPred), Len(syms), indexOf(syms, s), days)]

\* number of values of a target tensor
MaxCells == 6

\* the values of a prediction: 0.5 and 0.75
PredictionValues == {Half, [num |-> 3, den |-> 4]}

\* the rank-2 tensors of a given width over a set of values, the empty one
\* included
Tensors2(width, values) ==
    UNION {{[shape |-> <<n, width>>, data |-> d] : d \in [1..(n * width) -> values]} :
           n \in 0..(MaxCells \div width)}

\* the tensors of the shape of t
TensorsLike(t, values) ==
    {[shape |-> t.shape, data |-> d] : d \in [1..Len(t.data) -> values]}

\* calculatePerStockAccuracy on any targets and predictions of one shape
InitAccuracy ==
    /\ pc = "loaded"
    /\ symbols \in {SubSeq(SymbolNames, 1, n) : n \in 1..Len(SymbolNames)}
    /\ daysAhead \in 1..DefaultDaysAhead
    /\ y_test \in Tensors2(daysAhead * Len(symbols), {0, 1})
    /\ predictions = Null /\ stockAccuracies = Null
    /\ rawData = Null /\ dates = Null /\ pivoted = Null
    /\ normalized = Null /\ minMax = Null
    /\ sequenceLength = Null /\ predictionDays = Null
    /\ samples = Null /\ targets = Null /\ anchors = Null
    /\ splitRatio = Null
    /\ X_train = Null /\ y_train = Null /\ X_test = Null
    /\ DigitIdle /\ MetricIdle /\ AppIdle

CalculatePerStockAccuracy ==
    /\ pc = "loaded"
    /\ \E yPred \in TensorsLike(y_test, PredictionValues) :
          /\ predictions' = yPred
          /\ stockAccuracies' = calculatePerStockAccuracy(y_test, yPred, symbols, daysAhead)
    /\ pc' = "evaluated"
    /\ UNCHANGED <<rawData, symbols, dates, pivoted, normalized, minMax,
                   sequenceLength, predictionDays, samples, targets, anchors,
                   splitRatio, X_train, y_train, X_test, y_test>>
    /\ UNCHANGED <<daysAhead, digitVars, metricVars, appVars>>

NextAccuracy == CalculatePerStockAccuracy

SpecAccuracy == InitAccuracy /\ [][NextAccuracy]_vars

(***************************************************************************)
(* Properties of calculatePerStockAccuracy.                                *)
(***************************************************************************)
Evaluated == pc = "evaluated"

\* the target and the prediction of example n, day number day (from 0) and
\* entity number k (from 1)
TargetAt(n, day, k) ==
    y_test.data[(n - 1) * y_test.shape[2] + day * Len(symbols) + k]
PredictionAt(n, day, k) ==
    predictions.data[(n - 1) * y_test.shape[2] + day * Len(symbols) + k]

\* the (example, day) positions of entity k that are predicted right with
\* the strict threshold
RightOf(k) ==
    {pos \in (1..y_test.shape[1]) \X (0..(daysAhead - 1)) :
        TargetAt(pos[1], pos[2], k)
            = IF JsGreater(PredictionAt(pos[1], pos[2], k), Half) THEN 1 ELSE 0}

\* C15: the accuracy of an entity is correct / total, total the number of
\* examples times H and correct the number of its (example, horizon)
\* positions whose prediction, 1 only when above 0.5, equals the target.
C15_StrictThresholdRatio ==
    Evaluated =>
        /\ DOMAIN stockAccuracies = Range(symbols)
        /\ \A k \in 1..Len(symbols) :
              stockAccuracies[symbols[k]]
                  = JsDiv(Num(Cardinality(RightOf(k))), Num(y_test.shape[1] * daysAhead))

\* two entities and two examples at least, a prediction of exactly 0.5 for a
\* target 1, and two entities of different accuracy
C15_Witness ==
    /\ Evaluated
    /\ Len(symbols) = 2
    /\ y_test.shape[1] >= 2
    /\ \E n \in 1..y_test.shape[1], day \in 0..(daysAhead - 1) :
          TargetAt(n, day, 1) = 1 /\ PredictionAt(n, day, 1) = Half
    /\ ~NumEq(stockAccuracies[symbols[1]], stockAccuracies[symbols[2]])
    /\ InUnitInterval(stockAccuracies[symbols[1]])

\* C16: whatever the targets and the predictions are, the empty set of
\* examples included, every entity of symbols gets a number of [0, 1].
C16_AccuracyInUnitInterval ==
    Evaluated =>
        \A k \in 1..Len(symbols) :
            /\ symbols[k] \in DOMAIN stockAccuracies
            /\ InUnitInterval(stockAccuracies[symbols[k]])

(***************************************************************************)
(* StockPredictionApp.handleEvaluation after loadData with the default     *)
(* sequenceLength and predictionDays.                                      *)
(***************************************************************************)
\* the defaults of the parameters of prepareSamples
DefaultSequenceLength == 12
DefaultPredictionDays == 3

\* the dates of a file that gives two samples with the defaults
EvalDates == DefaultSequenceLength + DefaultPredictionDays + 2

\* the dates whose rows vary: those the labels of the last sample read
VaryingDates == (EvalDates - DefaultPredictionDays)..EvalDates

\* files of EvalDates dates, oldest first: both symbols have the same row on
\* the early dates; on the late dates the first symbol has any row and the
\* second symbol any row or none
EvalFiles ==
    {GridRows(EvalDates,
              [d \in 1..EvalDates |->
                  IF d \in VaryingDates THEN first[d] ELSE [Open |-> "1", Close |-> "2"]],
              [d \in 1..EvalDates |->
                  IF d \in VaryingDates THEN other[d] ELSE [Open |-> "1", Close |-> "2"]]) :
        first \in [VaryingDates -> GridFieldTexts],
        other \in [VaryingDates -> GridFieldTexts \cup {Undefined}]}

InitEval ==
    /\ rawData \in EvalFiles
    /\ InitNull
    /\ EvalIdle /\ DigitIdle /\ MetricIdle /\ AppIdle

\* this.prepareSamples(normalized, symbols, dates)
PrepareSamplesDefault ==
    /\ pc = "normalized"
    /\ LET result == prepareSamples(normalized, symbols, dates,
                                    DefaultSequenceLength, DefaultPredictionDays)
       IN  /\ sequenceLength' = DefaultSequenceLength
           /\ predictionDays' = DefaultPredictionDays
           /\ samples' = result.samples
           /\ targets' = result.targets
           /\ anchors' = result.anchors
    /\ pc' = "sampled"
    /\ UNCHANGED <<rawData, symbols, dates, pivoted, normalized, minMax, splitRatio,
                   X_train, y_train, X_test, y_test>>
    /\ UNCHANGED <<evalVars, digitVars, metricVars, appVars>>

\* handleEvaluation once the model is trained: the predictions are any
\* tensor of the shape of y_test
HandleEvaluation ==
    /\ pc = "loaded"
    /\ \E yPred \in TensorsLike(y_test, PredictionValues) :
          /\ predictions' = yPred
          /\ stockAccuracies' =
                calculatePerStockAccuracy(y_test, yPred, symbols, DefaultDaysAhead)
    /\ daysAhead' = DefaultDaysAhead
    /\ pc' = "evaluated"
    /\ UNCHANGED <<rawData, symbols, dates, pivoted, normalized, minMax,
                   sequenceLength, predictionDays, samples, targets, anchors,
                   splitRatio, X_train, y_train, X_test, y_test>>
    /\ UNCHANGED <<digitVars, metricVars, appVars>>

NextEval ==
    PivotData \/ NormalizeData \/ PrepareSamplesDefault \/ SplitData \/ HandleEvaluation

SpecEval == InitEval /\ [][NextEval]_vars

(***************************************************************************)
(* Properties of the entity order.                                         *)
(***************************************************************************)
\* the label of entity number k for the anchor index i and the horizon h
EntityLabel(i, h, k) ==
    IF /\ i + h < Len(dates)
       /\ HasAt(symbols[k], i + h)
       /\ JsGreater(normalized[symbols[k]][At(dates, i + h)].Close,
                    IF HasAt(symbols[k], i)
                    THEN normalized[symbols[k]][At(dates, i)].Close ELSE Zero)
    THEN 1 ELSE 0

\* the anchor index of test example n
TestAnchor(n) == anchors[Len(samples) - testSize + n]

\* the (test example, horizon) positions where the prediction read for
\* entity k equals the label of entity k
RightForEntity(k) ==
    {pos \in (1..testSize) \X (1..predictionDays) :
        EntityLabel(TestAnchor(pos[1]), pos[2], k)
            = IF JsGreater(PredictionAt(pos[1], pos[2] - 1, k), Half) THEN 1 ELSE 0}

\* C17: the label of horizon h and entity k stands at target index
\* (h - 1) * S + k, and the accuracy of an entity counts, over the test
\* examples and every horizon, the predictions of index (h - 1) * S + k that
\* equal the label of this same entity.
C17_EntityOrder ==
    /\ (Sampled \/ Evaluated) =>
          \A n \in 1..Len(targets), h \in 1..predictionDays, k \in 1..Len(symbols) :
              targets[n][(h - 1) * Len(symbols) + k] = EntityLabel(anchors[n], h, k)
    /\ Evaluated =>
          /\ daysAhead = predictionDays
          /\ DOMAIN stockAccuracies = Range(symbols)
          /\ \A k \in 1..Len(symbols) :
                stockAccuracies[symbols[k]]
                    = JsDiv(Num(Cardinality(RightForEntity(k))),
                            Num(testSize * predictionDays))

\* two entities whose labels differ at some horizon of a test example, one
\* entity with every prediction right and the other one not
C17_Witness ==
    /\ Evaluated
    /\ Len(symbols) = 2
    /\ testSize = 1
    /\ \E h \in 1..predictionDays :
          EntityLabel(TestAnchor(1), h, 1) # EntityLabel(TestAnchor(1), h, 2)
    /\ \E h \in 1..predictionDays : EntityLabel(TestAnchor(1), h, 2) = 1
    /\ NumEq(stockAccuracies[symbols[1]], Num(1))
    /\ JsLess(stockAccuracies[symbols[2]], Num(1))

(***************************************************************************)
(* MNISTDataLoader.loadTrainFromFiles and loadTestFromFiles, each one step *)
(* taken when the promise of loadCSVFile settles.                          *)
(***************************************************************************)
\* an assignment that stores null when the promise is rejected
AwaitOrNull(current, promise) ==
    IF promise.state = "fulfilled" THEN promise.value ELSE Null

\* field = await promise: a rejected promise throws before the assignment
AwaitInto(current, promise) ==
    IF promise.state = "fulfilled" THEN promise.value ELSE current

\* the files a user loads: the empty text, blank lines only, a line of 784
\* fields, a line of 786 fields and a blank line, and three files that hold
\* lines of 785 fields
LoaderFiles ==
    {<< <<"">> >>,
     << <<" ">>, <<"">> >>,
     << RowLine("3", "255", ValuesPerLine - 1) >>,
     << RowLine("7", "0", ValuesPerLine + 1), <<"">> >>,
     << RowLine("3", "0", ValuesPerLine) >>,
     << RowLine("7", "255", ValuesPerLine), RowLine("3", "255", ValuesPerLine - 1) >>,
     << RowLine("3", "0", ValuesPerLine), RowLine("7", "255", ValuesPerLine) >>}

InitLoader ==
    /\ DigitIdle
    /\ StockIdle /\ EvalIdle /\ MetricIdle /\ AppIdle

LoadTrainFromFiles ==
    /\ \E file \in LoaderFiles :
          /\ content' = file
          /\ loadResult' = loadCSVFile(file)
          /\ trainData' = AwaitInto(trainData, loadCSVFile(file))
    /\ caller' = "loadTrainFromFiles"
    /\ UNCHANGED testData
    /\ UNCHANGED <<stockVars, evalVars, metricVars, appVars>>

LoadTestFromFiles ==
    /\ \E file \in LoaderFiles :
          /\ content' = file
          /\ loadResult' = loadCSVFile(file)
          /\ testData' = AwaitInto(testData, loadCSVFile(file))
    /\ caller' = "loadTestFromFiles"
    /\ UNCHANGED trainData
    /\ UNCHANGED <<stockVars, evalVars, metricVars, appVars>>

NextLoader == LoadTrainFromFiles \/ LoadTestFromFiles

SpecLoader == InitLoader /\ [][NextLoader]_vars

(***************************************************************************)
(* Properties of a load without data.                                      *)
(***************************************************************************)
\* C18: a load of a text without a line of exactly 785 fields is rejected
\* with the error of an empty dataset, and it leaves trainData and testData
\* as they were.
C18_EmptyLoadFails ==
    [][(caller' # "none" /\ WellFormed' = {}) =>
          /\ loadResult'.state = "rejected"
          /\ loadResult'.reason = "No valid data found in file"
          /\ trainData' = trainData
          /\ testData' = testData]_vars

\* a rejected loadTrainFromFiles after a load that stored one record
C18_Witness ==
    /\ caller = "loadTrainFromFiles"
    /\ WellFormed = {}
    /\ loadResult.state = "rejected"
    /\ trainData # Null
    /\ trainData.count = 1

(***************************************************************************)
(* Properties of the error cases of prepareSamples and splitData.          *)
(***************************************************************************)
\* C19: prepareSamples never returns an empty list of samples: with
\* D - T - H <= 0 it fails, so no state holds the result of such a call.
C19_NoEmptySampleList ==
    (pc = "sampled") =>
        /\ (Len(dates) - sequenceLength) - predictionDays > 0
        /\ Len(samples) > 0

\* C20: splitData called with a ratio <= 0 or >= 1 reports an error and
\* returns no partition: every partition of a non-empty training part and a
\* non-empty test part it returned was asked with a ratio of the open
\* interval (0, 1).
C20_RatioInOpenInterval ==
    (pc = "loaded" /\ trainSize > 0 /\ testSize > 0) =>
        /\ JsGreater(splitRatio, Zero)
        /\ JsLess(splitRatio, Num(1))

(***************************************************************************)
(* The metrics functions on arrays whose shapes differ.                    *)
(***************************************************************************)
\* createConfusionMatrix on arrays of any two lengths
InitAnyLength ==
    /\ metricPc = "predicted"
    /\ predArray \in LabelArrays
    /\ trueArray \in LabelArrays
    /\ confusionMatrix = Null /\ perClassAccuracy = Null
    /\ StockIdle /\ EvalIdle /\ DigitIdle /\ AppIdle

\* predData[sample] is undefined for some sample of the loop: reading its
\* element throws a TypeError
SampleMissing(yTrue, yPred) == yPred.shape[1] < yTrue.shape[1]

\* calculatePerStockAccuracy on predictions of any number of examples, each
\* as wide as a target
CalculatePerStockAccuracyAnyRows ==
    /\ pc = "loaded"
    /\ \E yPred \in Tensors2(y_test.shape[2], PredictionValues) :
          /\ predictions' = yPred
          /\ IF SampleMissing(y_test, yPred)
             THEN pc' = "failed" /\ UNCHANGED stockAccuracies
             ELSE /\ stockAccuracies' =
                        calculatePerStockAccuracy(y_test, yPred, symbols, daysAhead)
                  /\ pc' = "evaluated"
    /\ UNCHANGED <<rawData, symbols, dates, pivoted, normalized, minMax,
                   sequenceLength, predictionDays, samples, targets, anchors,
                   splitRatio, X_train, y_train, X_test, y_test>>
    /\ UNCHANGED <<daysAhead, digitVars, metricVars, appVars>>

InitMismatch == InitAnyLength \/ InitAccuracy

NextMismatch == CreateConfusionMatrix \/ CalculatePerStockAccuracyAnyRows

SpecMismatch == InitMismatch /\ [][NextMismatch]_vars

\* C21: a metrics function given a prediction array and a label array of
\* different shapes reports an error: a confusion matrix or an accuracy
\* mapping is only ever computed from arrays of one shape.
C21_ShapeMismatchRejected ==
    /\ (metricPc = "counted") => Len(predArray) = Len(trueArray)
    /\ (pc = "evaluated") => predictions.shape = y_test.shape

(***************************************************************************)
(* The target rows and pixel rows of loadCSVFile.                          *)
(***************************************************************************)
\* the n-th target row and the n-th pixel row of the result
TargetRow(n) ==
    [c \in 1..NumClasses |-> loadResult.value.ys.data[(n - 1) * NumClasses + c]]
PixelRow(n) ==
    [k \in 1..(ValuesPerLine - 1) |->
        loadResult.value.xs.data[(n - 1) * (ValuesPerLine - 1) + k]]

\* the places of a target row that hold a 1
OnesOf(row) == {c \in 1..Len(row) : row[c] = 1}

\* C22: every record of a fulfilled load has a target row of length 10 with
\* exactly one 1, at the index of the label of its line, and a pixel row
\* whose values are those of the same line divided by 255, 0 giving 0 and 255
\* giving 1.
C22_OneHotAtLabel ==
    (caller = "loadCSVFile" /\ loadResult.state = "fulfilled") =>
        \A n \in 1..loadResult.value.count :
            LET line == content[NthOf(WellFormed, n)]
            IN  /\ Len(TargetRow(n)) = NumClasses
                /\ Cardinality(OnesOf(TargetRow(n))) = 1
                /\ \A c \in OnesOf(TargetRow(n)) : NumEq(Number(line[1]), Num(c - 1))
                /\ \A k \in 1..(ValuesPerLine - 1) :
                      /\ line[k + 1] = "0" => NumEq(PixelRow(n)[k], Zero)
                      /\ line[k + 1] = "255" => NumEq(PixelRow(n)[k], Num(1))
                      /\ NumEq(PixelRow(n)[k], JsDiv(Number(line[k + 1]), Num(PixelScale)))

(***************************************************************************)
(* DataLoader.parseCSV.  A text is the sequence of its characters; a       *)
(* JavaScript string stored in a row is the record Str(characters), so     *)
(* that it can stand next to undefined.                                    *)
(***************************************************************************)
\* number of characters of a text
MaxChars == 6

\* the characters of the texts: two letters, the comma, the line feed and
\* the space
Chars == {"a", "b", ",", "\n", " "}
WhiteSpace == {" ", "\n"}

Texts == UNION {[1..n -> Chars] : n \in 0..MaxChars}

Str(chars) == [str |-> chars]

RECURSIVE split(_, _)
\* String.prototype.split(sep) for a separator of one character
split(text, sep) ==
    IF \A k \in 1..Len(text) : text[k] # sep
    THEN <<text>>
    ELSE LET i == CHOOSE k \in 1..Len(text) :
                      text[k] = sep /\ \A m \in 1..(k - 1) : text[m] # sep
         IN  <<SubSeq(text, 1, i - 1)>> \o split(SubSeq(text, i + 1, Len(text)), sep)

RECURSIVE trimStart(_)
trimStart(text) ==
    IF text # <<>> /\ text[1] \in WhiteSpace THEN trimStart(Tail(text)) ELSE text

RECURSIVE trimEnd(_)
trimEnd(text) ==
    IF text # <<>> /\ text[Len(text)] \in WhiteSpace
    THEN trimEnd(SubSeq(text, 1, Len(text) - 1))
    ELSE text

\* a trim that leaves the white space at the end
trimStartOnly(text) == trimStart(text)

\* String.prototype.trim on a text
trimText(text) == trimEnd(trimStart(text))

\* the split and trimmed fields of a line
TrimmedFields(line) ==
    [j \in 1..Len(split(line, ",")) |-> trimText(split(line, ",")[j])]

\* row[header] = values[index] for every header in turn: a name that stands
\* twice keeps the value of its last place
RowOf(headers, values) ==
    [h \in Range(headers) |->
        LET j == CHOOSE p \in 1..Len(headers) :
                     headers[p] = h /\ \A q \in (p + 1)..Len(headers) : headers[q] # h
        IN  IF j <= Len(values) THEN Str(values[j]) ELSE Undefined]

\* the promise of parseCSV once reader.onload has run; lines[0] of no line
\* is undefined and its split throws a TypeError, which the catch rejects
parseCSV(text) ==
    LET lines == SelectSeq(split(text, "\n"), LAMBDA line : trimText(line) # <<>>)
    IN  IF Len(lines) = 0
        THEN [state |-> "rejected", reason |-> "TypeError"]
        ELSE [state |-> "fulfilled",
              value |-> [i \in 1..(Len(lines) - 1) |->
                            RowOf(TrimmedFields(lines[1]), TrimmedFields(lines[i + 1]))]]

\* one call of parseCSV on any text
InitParse ==
    /\ csv \in Texts
    /\ parsePc = "reading" /\ parsed = <<>> /\ parseError = "none"
    /\ StockIdle /\ EvalIdle /\ DigitIdle /\ MetricIdle /\ DigitAppIdle /\ StockAppIdle

\* reader.onload
ReaderOnLoad ==
    /\ parsePc = "reading"
    /\ LET result == parseCSV(csv)
       IN  IF result.state = "fulfilled"
           THEN parsePc' = "resolved" /\ parsed' = result.value /\ UNCHANGED parseError
           ELSE parsePc' = "rejected" /\ parseError' = result.reason /\ UNCHANGED parsed
    /\ UNCHANGED csv
    /\ UNCHANGED <<stockVars, evalVars, digitVars, metricVars, digitAppVars,
                   stockAppVars>>

\* reader.onerror
ReaderOnError ==
    /\ parsePc = "reading"
    /\ parsePc' = "rejected" /\ parseError' = "Failed to read file"
    /\ UNCHANGED <<csv, parsed>>
    /\ UNCHANGED <<stockVars, evalVars, digitVars, metricVars, digitAppVars,
                   stockAppVars>>

NextParse == ReaderOnLoad \/ ReaderOnError

SpecParse == InitParse /\ [][NextParse]_vars

(***************************************************************************)
(* Properties of parseCSV, stated on the places of the text.               *)
(***************************************************************************)
\* the pieces <<first, last>> of csv between lo and hi that sep delimits
Pieces(lo, hi, sep) ==
    {p \in (lo..(hi + 1)) \X ((lo - 1)..hi) :
        /\ p[2] >= p[1] - 1
        /\ (p[1] = lo \/ csv[p[1] - 1] = sep)
        /\ (p[2] = hi \/ csv[p[2] + 1] = sep)
        /\ \A k \in p[1]..p[2] : csv[k] # sep}

\* the n-th piece of a set of pieces
NthPiece(S, n) == CHOOSE p \in S : Cardinality({q \in S : q[1] < p[1]}) = n - 1

\* a piece without the spaces around it
Trimmed(p) ==
    LET inked == {k \in p[1]..p[2] : csv[k] # " "}
    IN  IF inked = {} THEN <<>>
        ELSE SubSeq(csv, CHOOSE k \in inked : \A m \in inked : k <= m,
                         CHOOSE k \in inked : \A m \in inked : k >= m)

AllLines == Pieces(1, Len(csv), "\n")
NonBlankLines == {p \in AllLines : Trimmed(p) # <<>>}
FieldsOf(line) == Pieces(line[1], line[2], ",")

\* C23: parseCSV takes the first non-blank line as the header and returns one
\* record for each later non-blank line, in order; a record maps each header
\* name to the trimmed field at the place of that name in its line (the last
\* place of a name that stands twice), to undefined where the line is too
\* short, and a text with a non-blank line is never rejected by the parse.
C23_RecordPerLine ==
    /\ (parsePc = "resolved") =>
          /\ NonBlankLines # {}
          /\ Len(parsed) = Cardinality(NonBlankLines) - 1
          /\ \A n \in 1..Len(parsed) :
                LET header == NthPiece(NonBlankLines, 1)
                    line == NthPiece(NonBlankLines, n + 1)
                IN  /\ DOMAIN parsed[n] = {Trimmed(f) : f \in FieldsOf(header)}
                    /\ \A f \in FieldsOf(header) :
                          (\A g \in FieldsOf(header) :
                               g[1] > f[1] => Trimmed(g) # Trimmed(f)) =>
                          LET place == Cardinality({g \in FieldsOf(header) : g[1] <= f[1]})
                          IN  parsed[n][Trimmed(f)] =
                                 IF place <= Cardinality(FieldsOf(line))
                                 THEN Str(Trimmed(NthPiece(FieldsOf(line), place)))
                                 ELSE Undefined
    /\ (parsePc = "rejected" /\ parseError # "Failed to read file") => NonBlankLines = {}

\* a header of two names, a blank line and a line that lacks the second field
C23_Witness ==
    /\ parsePc = "resolved"
    /\ Len(parsed) = 1
    /\ Cardinality(AllLines) > Cardinality(NonBlankLines)
    /\ Cardinality(DOMAIN parsed[1]) = 2
    /\ \E h \in DOMAIN parsed[1] : parsed[1][h] = Undefined
    /\ \E h \in DOMAIN parsed[1] : parsed[1][h] # Undefined

(***************************************************************************)
(* MNISTApp: the handlers of the digit application.  A dataset or a model  *)
(* is the record Tensor(id) of its identity; every step of a handler from  *)
(* one await to the next is one action, and a promise a handler awaits     *)
(* settles in an action of its own.  One call of onLoadData, onEvaluate,   *)
(* onTestFive and onLoadFromFiles is under way at a time; onTrain may be   *)
(* called at any time.  The log holds its last entry; a text built from an *)
(* error message or a number is cut before it.                             *)
(***************************************************************************)
\* number of datasets the loads of a behaviour create
MaxDatasets == 4
\* number of models a behaviour creates
MaxModels == 2
\* number of model.fit calls under way
MaxFits == 2

Tensor(id) == [id |-> id]
IdsOf(t) == IF t = Null THEN {} ELSE {t.id}
IsDisposed(t) == t # Null /\ t.id \in disposed
NewId == Cardinality(datasets \cup models) + 1

\* this.showError(message)
showError(message) ==
    IF message = "Please select both train and test CSV files"
    THEN "ERROR: Please select both train and test CSV files"
    ELSE IF message = "Failed to load data" THEN "ERROR: Failed to load data"
    ELSE IF message = "Please load training data first"
    THEN "ERROR: Please load training data first"
    ELSE IF message = "Training already in progress"
    THEN "ERROR: Training already in progress"
    ELSE IF message = "Training failed" THEN "ERROR: Training failed"
    ELSE IF message = "No model available" THEN "ERROR: No model available"
    ELSE IF message = "No test data available" THEN "ERROR: No test data available"
    ELSE IF message = "Evaluation failed" THEN "ERROR: Evaluation failed"
    ELSE IF message = "Please load both model and test data first"
    THEN "ERROR: Please load both model and test data first"
    ELSE IF message = "Test preview failed" THEN "ERROR: Test preview failed"
    ELSE IF message = "Please select both model.json and weights.bin files"
    THEN "ERROR: Please select both model.json and weights.bin files"
    ELSE "ERROR: Failed to load model"

\* what the digit application leaves alone
outsideDigitApp == <<stockVars, evalVars, metricVars, csvVars, stockAppVars,
                     content, caller, loadResult>>
loaderData == <<trainData, testData>>
appData == <<appTrainData, appTestData>>
tensorSets == <<datasets, models, disposed>>
pcsButLoad == <<evalPc, testPc, modelPc>>
pcsButEval == <<loadPc, testPc, modelPc>>
pcsButTest == <<loadPc, evalPc, modelPc>>
pcsButModel == <<loadPc, evalPc, testPc>>
allPcs == <<loadPc, evalPc, testPc, modelPc>>

InitDigitApp ==
    /\ DigitAppIdle /\ CsvIdle /\ StockAppIdle
    /\ DigitIdle /\ StockIdle /\ EvalIdle /\ MetricIdle

\* onLoadData without both files chosen
OnLoadDataNoFiles ==
    /\ logged' = showError("Please select both train and test CSV files")
    /\ UNCHANGED <<model, isTraining, appData, allPcs, loadedTrain, fits,
                   tensorSets, loaderData, outsideDigitApp>>

\* onLoadData up to its first await
OnLoadData ==
    /\ loadPc = "idle"
    /\ Cardinality(datasets) + 2 <= MaxDatasets
    /\ loadPc' = "awaitTrain"
    /\ logged' = "Loading training data..."
    /\ UNCHANGED <<model, isTraining, appData, pcsButLoad, loadedTrain, fits,
                   tensorSets, loaderData, outsideDigitApp>>

\* loadTrainFromFiles fulfils: the loader takes the dataset, then onLoadData
\* runs to its second await
TrainFileLoaded ==
    /\ loadPc = "awaitTrain"
    /\ trainData' = Tensor(NewId)
    /\ datasets' = datasets \cup {NewId}
    /\ loadedTrain' = Tensor(NewId)
    /\ loadPc' = "awaitTest"
    /\ logged' = "Loading test data..."
    /\ UNCHANGED <<model, isTraining, appData, pcsButLoad, fits,
                   models, disposed, testData, outsideDigitApp>>

\* loadTrainFromFiles rejects
TrainFileFailed ==
    /\ loadPc = "awaitTrain"
    /\ loadPc' = "idle"
    /\ logged' = showError("Failed to load data")
    /\ UNCHANGED <<model, isTraining, appData, pcsButLoad, loadedTrain, fits,
                   tensorSets, loaderData, outsideDigitApp>>

\* loadTestFromFiles fulfils: the loader takes the dataset, then onLoadData
\* stores both datasets and ends
TestFileLoaded ==
    /\ loadPc = "awaitTest"
    /\ testData' = Tensor(NewId)
    /\ datasets' = datasets \cup {NewId}
    /\ appTrainData' = loadedTrain
    /\ appTestData' = Tensor(NewId)
    /\ loadedTrain' = Null
    /\ loadPc' = "idle"
    /\ logged' = "Data loaded successfully!"
    /\ UNCHANGED <<model, isTraining, pcsButLoad, fits,
                   models, disposed, trainData, outsideDigitApp>>

\* loadTestFromFiles rejects
TestFileFailed ==
    /\ loadPc = "awaitTest"
    /\ loadedTrain' = Null
    /\ loadPc' = "idle"
    /\ logged' = showError("Failed to load data")
    /\ UNCHANGED <<model, isTraining, appData, pcsButLoad, fits,
                   tensorSets, loaderData, outsideDigitApp>>

\* onTrain without training data
OnTrainNoData ==
    /\ appTrainData = Null
    /\ logged' = showError("Please load training data first")
    /\ UNCHANGED <<model, isTraining, appData, allPcs, loadedTrain, fits,
                   tensorSets, loaderData, outsideDigitApp>>

\* a guard that does not look at isTraining
NotTraining == TRUE

\* !this.isTraining
MayTrain == ~isTraining

\* onTrain while a training is under way
OnTrainBusy ==
    /\ appTrainData # Null
    /\ ~MayTrain
    /\ logged' = showError("Training already in progress")
    /\ UNCHANGED <<model, isTraining, appData, allPcs, loadedTrain, fits,
                   tensorSets, loaderData, outsideDigitApp>>

\* onTrain up to its await of model.fit; splitTrainVal on a disposed dataset
\* and fit on a disposed model throw, and the catch and the finally run
OnTrain ==
    /\ appTrainData # Null
    /\ MayTrain
    /\ Len(fits) < MaxFits
    /\ model = Null => Cardinality(models) < MaxModels
    /\ IF IsDisposed(appTrainData) \/ IsDisposed(model)
       THEN /\ logged' = showError("Training failed")
            /\ isTraining' = FALSE
            /\ UNCHANGED <<model, fits, models>>
       ELSE /\ model' = IF model = Null THEN Tensor(NewId) ELSE model
            /\ models' = models \cup {model'.id}
            /\ isTraining' = TRUE
            /\ fits' = Append(fits, [model |-> model'.id])
            /\ logged' = "Starting training..."
    /\ UNCHANGED <<appData, allPcs, loadedTrain, datasets, disposed,
                   loaderData, outsideDigitApp>>

Without(seq, k) == [j \in 1..(Len(seq) - 1) |-> IF j < k THEN seq[j] ELSE seq[j + 1]]

\* model.fit fulfils: onTrain disposes its slices and ends through finally
FitResolved(k) ==
    /\ k \in 1..Len(fits)
    /\ fits' = Without(fits, k)
    /\ isTraining' = FALSE
    /\ logged' = "Training completed"
    /\ UNCHANGED <<model, appData, allPcs, loadedTrain, tensorSets,
                   loaderData, outsideDigitApp>>

\* a rejection after which isTraining stays as it is
FitRejectedNoFinally(k) ==
    /\ k \in 1..Len(fits)
    /\ fits' = Without(fits, k)
    /\ logged' = showError("Training failed")
    /\ UNCHANGED <<model, isTraining, appData, allPcs, loadedTrain, tensorSets,
                   loaderData, outsideDigitApp>>

\* model.fit rejects: onTrain ends through catch and finally
FitRejected(k) ==
    /\ k \in 1..Len(fits)
    /\ fits' = Without(fits, k)
    /\ isTraining' = FALSE
    /\ logged' = showError("Training failed")
    /\ UNCHANGED <<model, appData, allPcs, loadedTrain, tensorSets,
                   loaderData, outsideDigitApp>>

\* onEvaluate without a model, or without test data
OnEvaluateRefused ==
    /\ model = Null \/ appTestData = Null
    /\ logged' = IF model = Null THEN showError("No model available")
                 ELSE showError("No test data available")
    /\ UNCHANGED <<model, isTraining, appData, allPcs, loadedTrain, fits,
                   tensorSets, loaderData, outsideDigitApp>>

\* onEvaluate up to the await in calculateAccuracy; predict on a disposed
\* model or dataset throws
OnEvaluate ==
    /\ evalPc = "idle"
    /\ model # Null /\ appTestData # Null
    /\ IF IsDisposed(model) \/ IsDisposed(appTestData)
       THEN /\ logged' = showError("Evaluation failed")
            /\ UNCHANGED evalPc
       ELSE /\ evalPc' = "awaitAccuracy"
            /\ logged' = "Evaluating model..."
    /\ UNCHANGED <<model, isTraining, appData, pcsButEval, loadedTrain, fits,
                   tensorSets, loaderData, outsideDigitApp>>

\* calculateAccuracy returns; onEvaluate runs to the await in
\* createConfusionMatrix
AccuracyComputed ==
    /\ evalPc = "awaitAccuracy"
    /\ evalPc' = "awaitMatrix"
    /\ UNCHANGED <<model, isTraining, appData, logged, pcsButEval, loadedTrain,
                   fits, tensorSets, loaderData, outsideDigitApp>>

\* createConfusionMatrix returns; onEvaluate reads this.model again for the
\* model summary and ends; the summary of null throws, that of a disposed
\* model may
MatrixComputed ==
    /\ evalPc = "awaitMatrix"
    /\ evalPc' = "idle"
    /\ IF model = Null
       THEN /\ logged' = showError("Evaluation failed")
       ELSE IF IsDisposed(model)
       THEN /\ logged' \in {"Test accuracy", showError("Evaluation failed")}
       ELSE /\ logged' = "Test accuracy"
    /\ UNCHANGED <<model, isTraining, appData, pcsButEval, loadedTrain, fits,
                   tensorSets, loaderData, outsideDigitApp>>

\* onTestFive without a model or without test data
OnTestFiveRefused ==
    /\ model = Null \/ appTestData = Null
    /\ logged' = showError("Please load both model and test data first")
    /\ UNCHANGED <<model, isTraining, appData, allPcs, loadedTrain, fits,
                   tensorSets, loaderData, outsideDigitApp>>

\* onTestFive up to its first await
OnTestFive ==
    /\ testPc = "idle"
    /\ model # Null /\ appTestData # Null
    /\ IF IsDisposed(model) \/ IsDisposed(appTestData)
       THEN /\ logged' = showError("Test preview failed")
            /\ UNCHANGED testPc
       ELSE /\ testPc' = "awaitPredArray"
            /\ UNCHANGED logged
    /\ UNCHANGED <<model, isTraining, appData, pcsButTest, loadedTrain, fits,
                   tensorSets, loaderData, outsideDigitApp>>

\* predictedLabels.array() fulfils
PredArrayRead ==
    /\ testPc = "awaitPredArray"
    /\ testPc' = "awaitTrueArray"
    /\ UNCHANGED <<model, isTraining, appData, logged, pcsButTest, loadedTrain,
                   fits, tensorSets, loaderData, outsideDigitApp>>

\* trueLabels.array() fulfils; onTestFive renders and disposes its tensors
TrueArrayRead ==
    /\ testPc = "awaitTrueArray"
    /\ testPc' = "idle"
    /\ UNCHANGED <<model, isTraining, appData, logged, pcsButTest, loadedTrain,
                   fits, tensorSets, loaderData, outsideDigitApp>>

\* onLoadFromFiles without both files chosen
OnLoadFromFilesNoFiles ==
    /\ logged' = showError("Please select both model.json and weights.bin files")
    /\ UNCHANGED <<model, isTraining, appData, allPcs, loadedTrain, fits,
                   tensorSets, loaderData, outsideDigitApp>>

\* onLoadFromFiles up to its await: the old model is disposed and stays in
\* this.model; the dispose of a model disposed before throws or does nothing
OnLoadFromFiles ==
    /\ modelPc = "idle"
    /\ Cardinality(models) < MaxModels
    /\ IF IsDisposed(model)
       THEN /\ \/ modelPc' = "awaitModel" /\ logged' = "Loading model..."
               \/ logged' = showError("Failed to load model") /\ UNCHANGED modelPc
            /\ UNCHANGED disposed
       ELSE /\ disposed' = disposed \cup IdsOf(model)
            /\ modelPc' = "awaitModel"
            /\ logged' = "Loading model..."
    /\ UNCHANGED <<model, isTraining, appData, pcsButModel, loadedTrain, fits,
                   datasets, models, loaderData, outsideDigitApp>>

\* tf.loadLayersModel fulfils
ModelLoaded ==
    /\ modelPc = "awaitModel"
    /\ model' = Tensor(NewId)
    /\ models' = models \cup {NewId}
    /\ modelPc' = "idle"
    /\ logged' = "Model loaded successfully!"
    /\ UNCHANGED <<isTraining, appData, pcsButModel, loadedTrain, fits,
                   datasets, disposed, loaderData, outsideDigitApp>>

\* tf.loadLayersModel rejects
ModelLoadFailed ==
    /\ modelPc = "awaitModel"
    /\ modelPc' = "idle"
    /\ logged' = showError("Failed to load model")
    /\ UNCHANGED <<model, isTraining, appData, pcsButModel, loadedTrain, fits,
                   tensorSets, loaderData, outsideDigitApp>>

\* onReset; the dispose of a model disposed before throws, and onReset ends
\* there, or does nothing
OnReset ==
    \/ /\ model' = Null
       /\ disposed' = disposed \cup IdsOf(model) \cup IdsOf(trainData) \cup IdsOf(testData)
       /\ trainData' = Null /\ testData' = Null
       /\ appTrainData' = Null /\ appTestData' = Null
       /\ logged' = "Reset completed"
       /\ UNCHANGED <<isTraining, allPcs, loadedTrain, fits, datasets, models,
                      outsideDigitApp>>
    \/ /\ IsDisposed(model)
       /\ UNCHANGED <<model, isTraining, appData, logged, allPcs, loadedTrain, fits,
                      tensorSets, loaderData, outsideDigitApp>>

NextDigitApp ==
    \/ OnLoadDataNoFiles \/ OnLoadData
    \/ TrainFileLoaded \/ TrainFileFailed \/ TestFileLoaded \/ TestFileFailed
    \/ OnTrainNoData \/ OnTrainBusy \/ OnTrain
    \/ (\E k \in 1..MaxFits : FitResolved(k))
    \/ (\E k \in 1..MaxFits : FitRejected(k))
    \/ OnEvaluateRefused \/ OnEvaluate \/ AccuracyComputed \/ MatrixComputed
    \/ OnTestFiveRefused \/ OnTestFive \/ PredArrayRead \/ TrueArrayRead
    \/ OnLoadFromFilesNoFiles \/ OnLoadFromFiles \/ ModelLoaded \/ ModelLoadFailed
    \/ OnReset

SpecDigitApp == InitDigitApp /\ [][NextDigitApp]_vars

(***************************************************************************)
(* Properties of the handlers of the digit application.                    *)
(***************************************************************************)
\* no handler is between two of its steps
Quiet ==
    /\ loadPc = "idle" /\ evalPc = "idle" /\ testPc = "idle" /\ modelPc = "idle"
    /\ fits = <<>>

\* C24: when onReset has returned after a sequence of finished handlers, the
\* model and the datasets of the application and of the loader are null and
\* every dataset a load created is disposed.
C24_ResetReleasesAll ==
    (logged = "Reset completed" /\ Quiet) =>
        /\ model = Null
        /\ appTrainData = Null /\ appTestData = Null
        /\ trainData = Null /\ testData = Null
        /\ datasets \subseteq disposed

\* the handlers that write what onTrain reads: onLoadData, onTrain,
\* onLoadFromFiles and onReset
NextDigitTrain ==
    \/ OnLoadDataNoFiles \/ OnLoadData
    \/ TrainFileLoaded \/ TrainFileFailed \/ TestFileLoaded \/ TestFileFailed
    \/ OnTrainNoData \/ OnTrainBusy \/ OnTrain
    \/ (\E k \in 1..MaxFits : FitResolved(k))
    \/ (\E k \in 1..MaxFits : FitRejected(k))
    \/ OnLoadFromFilesNoFiles \/ OnLoadFromFiles \/ ModelLoaded \/ ModelLoadFailed
    \/ OnReset

SpecDigitTrain == InitDigitApp /\ [][NextDigitTrain]_vars

\* a call of onTrain
OnTrainCalled == OnTrainNoData \/ OnTrainBusy \/ OnTrain

\* what a call of onTrain may change besides the log
trainState == <<model, isTraining, appData, allPcs, loadedTrain, fits,
                tensorSets, loaderData>>

\* C25 as stated: at most one model.fit is under way, and a call of onTrain
\* while isTraining is true logs 'Training already in progress' and changes
\* nothing else.
C25_BusyMessageOnly ==
    /\ [](Len(fits) <= 1)
    /\ [][(isTraining /\ OnTrainCalled) =>
             /\ logged' = showError("Training already in progress")
             /\ UNCHANGED trainState]_vars

\* C25: at most one model.fit is under way, and a call of onTrain while
\* isTraining is true logs an error, 'Training already in progress' or, with
\* the training data reset meanwhile, 'Please load training data first', and
\* changes nothing else: no second fit starts and isTraining stays true.
C25_OneTrainingAtATime ==
    /\ [](Len(fits) <= 1)
    /\ [][(isTraining /\ OnTrainCalled) =>
             /\ logged' = IF appTrainData = Null
                          THEN showError("Please load training data first")
                          ELSE showError("Training already in progress")
             /\ UNCHANGED trainState]_vars

\* onTrain was called during a training and refused
C25_Witness ==
    /\ isTraining /\ Len(fits) = 1
    /\ logged = showError("Training already in progress")

\* model.fit settles
FitSettles == \E k \in 1..MaxFits : FitResolved(k) \/ FitRejected(k)

\* every model.fit settles in the end
SpecDigitTrainLive == SpecDigitTrain /\ WF_vars(FitSettles)

\* C26: a training that has started sets isTraining back to false in the
\* end, whether model.fit fulfils or rejects.
C26_TrainingEnds == isTraining ~> ~isTraining

\* a training ended by a model.fit that rejected
C26_Witness ==
    /\ ~isTraining /\ fits = <<>> /\ models # {}
    /\ logged = showError("Training failed")
    /\ appTrainData # Null /\ ~IsDisposed(appTrainData) /\ ~IsDisposed(model)

\* C27: no model.fit under way runs on a disposed model, and the model that
\* onEvaluate reads after its awaits is neither null nor disposed.
C27_NoUseAfterDispose ==
    /\ \A k \in 1..Len(fits) : fits[k].model \notin disposed
    /\ evalPc # "idle" => (model # Null /\ ~IsDisposed(model))

\* C30: when onLoadData has ended, with or without an error, the datasets of
\* the application are those of the loader.
C30_LoadAllOrNothing ==
    (loadPc = "idle" /\ logged \in {"Data loaded successfully!",
                                     showError("Failed to load data")}) =>
        (appTrainData = trainData /\ appTestData = testData)

(***************************************************************************)
(* StockPredictionApp: the handlers of the stock application.  The dataset *)
(* of the DataLoader is the number of the upload that stored it, 0 before  *)
(* the first; the network of the GRUModel is the record of its number and  *)
(* of the dataset it was trained on, 0 while untrained.  A click reaches a *)
(* handler only while its button is enabled; what the page sets for the    *)
(* two buttons at the start is not in the sources, so both values are      *)
(* initial states.                                                         *)
(***************************************************************************)
\* number of uploads that store a dataset
MaxUploads == 2
\* number of networks buildModel creates
MaxBuilds == 3
\* number of handleTraining calls under way
MaxRuns == 2

outsideStockApp == <<stockVars, evalVars, digitVars, metricVars, csvVars,
                     digitAppVars>>

InitStockApp ==
    /\ isDataLoaded = FALSE /\ isModelTrained = FALSE
    /\ trainDisabled \in BOOLEAN /\ evaluateDisabled \in BOOLEAN
    /\ loaded = 0 /\ uploadPc = "idle"
    /\ net = Null /\ runs = <<>>
    /\ alerted = "" /\ evaluated = Null
    /\ StockIdle /\ EvalIdle /\ DigitIdle /\ MetricIdle /\ CsvIdle /\ DigitAppIdle

\* handleFileUpload without a file chosen
HandleFileUploadNoFile ==
    /\ alerted' = "Please select a CSV file"
    /\ UNCHANGED <<isDataLoaded, isModelTrained, trainDisabled, evaluateDisabled,
                   loaded, uploadPc, net, runs, evaluated, outsideStockApp>>

\* handleFileUpload up to its await of loadData
HandleFileUpload ==
    /\ uploadPc = "idle"
    /\ loaded < MaxUploads
    /\ uploadPc' = "awaitLoad"
    /\ UNCHANGED <<isDataLoaded, isModelTrained, trainDisabled, evaluateDisabled,
                   loaded, net, runs, alerted, evaluated, outsideStockApp>>

\* loadData fulfils: the DataLoader holds the new dataset, and
\* handleFileUpload enables the train button
DataLoaded ==
    /\ uploadPc = "awaitLoad"
    /\ loaded' = loaded + 1
    /\ isDataLoaded' = TRUE
    /\ trainDisabled' = FALSE
    /\ uploadPc' = "idle"
    /\ UNCHANGED <<isModelTrained, evaluateDisabled, net, runs, alerted, evaluated,
                   outsideStockApp>>

\* loadData rejects
DataLoadFailed ==
    /\ uploadPc = "awaitLoad"
    /\ uploadPc' = "idle"
    /\ alerted' = "Error loading file"
    /\ UNCHANGED <<isDataLoaded, isModelTrained, trainDisabled, evaluateDisabled,
                   loaded, net, runs, evaluated, outsideStockApp>>

\* handleTraining before any data is loaded
HandleTrainingNoData ==
    /\ ~trainDisabled
    /\ ~isDataLoaded
    /\ alerted' = "Please load data first"
    /\ UNCHANGED <<isDataLoaded, isModelTrained, trainDisabled, evaluateDisabled,
                   loaded, uploadPc, net, runs, evaluated, outsideStockApp>>

NetId == IF net = Null THEN 0 ELSE net.id

\* handleTraining up to its await of train: the button is disabled, a new
\* network is built and its fit on the loaded dataset starts
HandleTraining ==
    /\ ~trainDisabled
    /\ isDataLoaded
    /\ Len(runs) < MaxRuns /\ NetId < MaxBuilds
    /\ trainDisabled' = TRUE
    /\ net' = [id |-> NetId + 1, trainedOn |-> 0]
    /\ runs' = Append(runs, [model |-> NetId + 1, data |-> loaded, phase |-> "fit"])
    /\ UNCHANGED <<isDataLoaded, isModelTrained, evaluateDisabled, loaded, uploadPc,
                   alerted, evaluated, outsideStockApp>>

\* train fulfils: the network of the run is trained, handleTraining sets
\* isModelTrained, enables the evaluate button and awaits saveModel
TrainResolved(k) ==
    /\ k \in 1..Len(runs)
    /\ runs[k].phase = "fit"
    /\ net' = IF net.id = runs[k].model
              THEN [id |-> net.id, trainedOn |-> runs[k].data]
              ELSE net
    /\ isModelTrained' = TRUE
    /\ evaluateDisabled' = FALSE
    /\ runs' = [runs EXCEPT ![k].phase = "save"]
    /\ UNCHANGED <<isDataLoaded, trainDisabled, loaded, uploadPc, alerted, evaluated,
                   outsideStockApp>>

\* train or saveModel rejects: the catch enables the train button
TrainRejected(k) ==
    /\ k \in 1..Len(runs)
    /\ runs' = Without(runs, k)
    /\ alerted' = "Error during training"
    /\ trainDisabled' = FALSE
    /\ UNCHANGED <<isDataLoaded, isModelTrained, evaluateDisabled, loaded, uploadPc,
                   net, evaluated, outsideStockApp>>

\* saveModel fulfils: handleTraining ends
ModelSaved(k) ==
    /\ k \in 1..Len(runs)
    /\ runs[k].phase = "save"
    /\ runs' = Without(runs, k)
    /\ UNCHANGED <<isDataLoaded, isModelTrained, trainDisabled, evaluateDisabled,
                   loaded, uploadPc, net, alerted, evaluated, outsideStockApp>>

\* handleEvaluation before any training has ended
HandleEvaluationUntrained ==
    /\ ~evaluateDisabled
    /\ ~isModelTrained
    /\ alerted' = "Please train the model first"
    /\ UNCHANGED <<isDataLoaded, isModelTrained, trainDisabled, evaluateDisabled,
                   loaded, uploadPc, net, runs, evaluated, outsideStockApp>>

\* handleEvaluation: the network predicts on the test tensors of the loaded
\* dataset; with tensors of another shape than it was built for it throws
EvaluateLoaded ==
    /\ ~evaluateDisabled
    /\ isModelTrained
    /\ \/ /\ evaluated' = [model |-> net.trainedOn, data |-> loaded]
          /\ UNCHANGED alerted
       \/ /\ net.trainedOn # loaded
          /\ alerted' = "Error during evaluation"
          /\ UNCHANGED evaluated
    /\ UNCHANGED <<isDataLoaded, isModelTrained, trainDisabled, evaluateDisabled,
                   loaded, uploadPc, net, runs, outsideStockApp>>

NextStockApp ==
    \/ HandleFileUploadNoFile \/ HandleFileUpload \/ DataLoaded \/ DataLoadFailed
    \/ HandleTrainingNoData \/ HandleTraining
    \/ (\E k \in 1..MaxRuns : TrainResolved(k))
    \/ (\E k \in 1..MaxRuns : TrainRejected(k))
    \/ (\E k \in 1..MaxRuns : ModelSaved(k))
    \/ HandleEvaluationUntrained \/ EvaluateLoaded

SpecStockApp == InitStockApp /\ [][NextStockApp]_vars

(***************************************************************************)
(* Properties of the handlers of the stock application.                    *)
(***************************************************************************)
\* the calls of GRUModel.train under way
Training == {k \in 1..Len(runs) : runs[k].phase = "fit"}

\* C28: at most one call of GRUModel.train is under way, and the train
\* button is disabled while one is.
C28_OneTrainingRun ==
    /\ Cardinality(Training) <= 1
    /\ Training # {} => trainDisabled

\* C29: while isModelTrained is true the network of the GRUModel was trained
\* on the dataset the DataLoader holds, and every evaluation used a network
\* trained on the dataset it evaluated.
C29_TrainedOnLoaded ==
    /\ isModelTrained => (net # Null /\ net.trainedOn = loaded)
    /\ evaluated # Null => evaluated.model = evaluated.data

====
